---- MODULE Spec2Model ----
(***************************************************************************)
(* State-machine model of the zDAW session clip launcher (ClipLauncher)    *)
(* and of the time-base helpers it uses.                                   *)
(*                                                                         *)
(* Units.  The helpers of the time base compute with exact fractions of    *)
(* beats and seconds.  The launcher keeps its beats in 1/8 beat (so the     *)
(* smallest quantization, '1/32' = 0.125 beat, is 1 unit) and its seconds   *)
(* in 1/8 second.                                                           *)
(*                                                                         *)
(* A ScheduledClip object is an entry of the sequence `clips`; its index   *)
(* stands for the object's identity (generateId()).  The three Maps of     *)
(* ClipLauncherState hold such indices, NoClip meaning "no entry".         *)
(* `emitted` is the sequence of ClipLauncherEvents the last handler        *)
(* emitted, each tagged with the identity of the ScheduledClip it is       *)
(* about; `op` names that handler.                                         *)
(***************************************************************************)
EXTENDS Integers, Sequences, FiniteSets, TLC

\* ------------------------------------------------------------------ bounds
MaxLaunches == 3
MaxSteps == 4
SentCap == 2
MaxMarkers == 3
MaxNumerator == 33
MaxIterations == 12

\* ------------------------------------------------------- program constants
bpm == 120
BeatUnit == 8
SecondUnit == BeatUnit
\* the clock is observed every ClockStep (one second = two beats at 120 bpm)
ClockStep == SecondUnit
MaxElapsed == MaxSteps * ClockStep

NoClip == 0
Null == 0 - 1

Tracks == {1, 2}
NumTracks == Cardinality(Tracks)

VARIABLES clips, playing, triggered, stopping, emitted,
          transportState, position, elapsed, tickerId,
          globalQuantization, sampleCache, midiOutput, op,
          markers, calc, engine

\* the fields of the ClipLauncher
launcherVars == <<clips, playing, triggered, stopping, emitted,
                  transportState, position, elapsed, tickerId,
                  globalQuantization, sampleCache, midiOutput>>

vars == <<launcherVars, op, markers, calc, engine>>

\* ---------------------------------------------------------------- numbers
\* A JavaScript number that a helper computes with is the exact fraction
\* <<n, d>> with d >= 0: d = 0 stands for a value that is not a finite number
\* (0 / 0 = NaN, x / 0 = Infinity), and the operators below propagate it as
\* the floating-point operators do.  The rounding of doubles is not modelled.
Rat(n) == <<n, 1>>

RAdd(a, b) == <<a[1] * b[2] + b[1] * a[2], a[2] * b[2]>>

RSub(a, b) == <<a[1] * b[2] - b[1] * a[2], a[2] * b[2]>>

RMul(a, b) == <<a[1] * b[1], a[2] * b[2]>>

RDiv(a, b) ==
    IF b[1] < 0 THEN <<(0 - a[1]) * b[2], a[2] * (0 - b[1])>>
    ELSE <<a[1] * b[2], a[2] * b[1]>>

\* comparisons; one with a value that is not a number is false
REq(a, b) == a[2] # 0 /\ b[2] # 0 /\ a[1] * b[2] = b[1] * a[2]

RLt(a, b) == a[2] # 0 /\ b[2] # 0 /\ a[1] * b[2] < b[1] * a[2]

RLe(a, b) == a[2] # 0 /\ b[2] # 0 /\ a[1] * b[2] <= b[1] * a[2]

\* Math.ceil(a) of a finite a
Ceil(a) == 0 - ((0 - a[1]) \div a[2])

\* The launcher keeps beats and seconds on a grid: n stands for n / BeatUnit
\* beats (n / SecondUnit seconds).  Every value the launcher computes from
\* grid values with the session data below is on the grid again.
Beats(n) == <<n, BeatUnit>>

Seconds(n) == <<n, SecondUnit>>

InBeatUnits(r) == (r[1] * BeatUnit) \div r[2]

InSecondUnits(r) == (r[1] * SecondUnit) \div r[2]

\* ------------------------------------------------------------- time base
beatsToSeconds(beats, b) == RMul(RDiv(beats, b), Rat(60))

\* secondsToBeats, but computed as beatsToSeconds is
secondsToBeats_asBeatsToSeconds(seconds, b) == RMul(RDiv(seconds, b), Rat(60))

secondsToBeats(seconds, b) == RMul(RDiv(seconds, Rat(60)), b)

launchQuantizationToBeats(q, b) ==
    CASE q = "none"   -> Rat(0)
      [] q = "1/32"   -> <<1, 8>>
      [] q = "1/16"   -> <<1, 4>>
      [] q = "1/8"    -> <<1, 2>>
      [] q = "1/4"    -> Rat(1)
      [] q = "1/2"    -> Rat(2)
      [] q = "1-bar"  -> Rat(4)
      [] q = "2-bars" -> Rat(8)
      [] q = "4-bars" -> Rat(16)
      [] q = "8-bars" -> Rat(32)
      [] q = "global" -> Rat(4)
      [] OTHER        -> Rat(0)

\* getNextQuantizedBeat, but always the boundary after currentBeat
getNextQuantizedBeat_followingBoundary(currentBeat, quantization, b) ==
    LET q == launchQuantizationToBeats(quantization, b)
    IN  IF q[1] = 0 THEN currentBeat
        ELSE LET r == RDiv(currentBeat, q)
             IN  RMul(Rat((r[1] \div r[2]) + 1), q)

getNextQuantizedBeat(currentBeat, quantization, b) ==
    LET q == launchQuantizationToBeats(quantization, b)
    IN  IF q[1] = 0 THEN currentBeat
        ELSE RMul(Rat(Ceil(RDiv(currentBeat, q))), q)

\* ------------------------------------------------------------ session data
\* The clips of the session grid, one per slot index (the `clip` argument of
\* launchClip).  duration and loopEnd are in beat units; loopEnd = 0 stands
\* for "not set" (clip.loopEnd || clipDuration).  chance and the random draw
\* are in quarters.
NoFollow == [present |-> FALSE, actionA |-> "none", chanceA |-> 0, actionB |-> "none"]

SessionClips ==
    <<  [type |-> "midi",  legato |-> "off",    loopEnabled |-> TRUE,
         loopEnd |-> 0, duration |-> 4 * BeatUnit, followAction |-> NoFollow,
         notes |-> << [start |-> 0, duration |-> 2 * BeatUnit] >>,
         regions |-> << >>],
        [type |-> "audio", legato |-> "legato", loopEnabled |-> TRUE,
         loopEnd |-> 2 * BeatUnit, duration |-> 4 * BeatUnit,
         followAction |-> [present |-> TRUE, actionA |-> "stop", chanceA |-> 2,
                           actionB |-> "none"],
         notes |-> << >>,
         regions |-> << [sampleId |-> 1, start |-> 0, duration |-> 2 * BeatUnit],
                        [sampleId |-> 2, start |-> 0, duration |-> 4 * BeatUnit] >>],
        [type |-> "midi",  legato |-> "off",    loopEnabled |-> FALSE,
         loopEnd |-> 0, duration |-> 2 * BeatUnit, followAction |-> NoFollow,
         notes |-> << [start |-> 0, duration |-> BeatUnit] >>,
         regions |-> << >>],
        [type |-> "midi",  legato |-> "off",    loopEnabled |-> TRUE,
         loopEnd |-> 2 * BeatUnit, duration |-> 4 * BeatUnit,
         followAction |-> NoFollow,
         notes |-> << [start |-> 0, duration |-> 4 * BeatUnit] >>,
         regions |-> << >>] >>

\* the sample ids loadSample is called with
SampleIds == {1, 2}

\* the slots of the session grid; the clip after them has a note that is
\* longer than its loop
Slots == 1..3

\* Math.random() in quarters: a draw equal to chanceA and a greater one
RandomDraws == {2, 3}

LaunchQuantizations == {"none", "1-bar", "global"}

GlobalQuantizations == {"1-bar", "1/2"}

StartPositions == {0}

\* ----------------------------------------------------------- launcher state
\* The mutable part of a ClipLauncher a handler works on.
Launcher == [clips |-> clips, playing |-> playing, triggered |-> triggered,
             stopping |-> stopping, emitted |-> <<>>]

Event(type, sc, id, n, act) ==
    [type |-> type, trackId |-> sc.trackId, slotIndex |-> sc.slotIndex,
     loopCount |-> n, action |-> act, id |-> id]

emit(S, ev) == [S EXCEPT !.emitted = Append(@, ev)]

getPosition ==
    IF transportState # "playing"
    THEN position
    ELSE position + InBeatUnits(secondsToBeats(Seconds(elapsed), Rat(bpm)))

\* context.currentTime, counted from the startTime of the transport
now == elapsed

\* this.midiOutput?.(note, velocity, 0) for an event that has seen `count`
\* such calls: one more if a callback is set (a count saturates at SentCap)
midiSend(count) ==
    IF midiOutput /\ count < SentCap THEN count + 1 ELSE count

\* startAudioClipFrom, but a region without a loaded sample ends the loop
RECURSIVE startAudioClipFrom_abortsOnMissing(_, _)
startAudioClipFrom_abortsOnMissing(clip, r) ==
    IF r > Len(clip.regions) THEN << >>
    ELSE IF clip.regions[r].sampleId \notin sampleCache
    THEN << >>
    ELSE << [region |-> r,
             when |-> now + InSecondUnits(
                          beatsToSeconds(Beats(clip.regions[r].start), Rat(bpm)))] >>
         \o startAudioClipFrom_abortsOnMissing(clip, r + 1)

\* The sources of the regions r, r + 1, ... of an audio clip, in order.  A
\* source of a looping clip ends only when it is stopped, and by then
\* stopScheduledClip has emptied the list its onended callback would edit.
RECURSIVE startAudioClipFrom(_, _)
startAudioClipFrom(clip, r) ==
    IF r > Len(clip.regions) THEN << >>
    ELSE IF clip.regions[r].sampleId \notin sampleCache
    THEN startAudioClipFrom(clip, r + 1)
    ELSE << [region |-> r,
             when |-> now + InSecondUnits(
                          beatsToSeconds(Beats(clip.regions[r].start), Rat(bpm)))] >>
         \o startAudioClipFrom(clip, r + 1)

startAudioClip(S, id) ==
    LET clip == SessionClips[S.clips[id].slotIndex]
    IN  [S EXCEPT !.clips[id].sources = @ \o startAudioClipFrom(clip, 1)]

\* the ScheduledMIDIEvents of the notes of a clip, scheduled from `now`.
\* ons and offs count the note-on and note-off calls made for the event.
ScheduleNotes(clip) ==
    [k \in DOMAIN clip.notes |->
        LET noteStartTime ==
                now + InSecondUnits(beatsToSeconds(Beats(clip.notes[k].start), Rat(bpm)))
            noteEndTime ==
                noteStartTime
                + InSecondUnits(beatsToSeconds(Beats(clip.notes[k].duration), Rat(bpm)))
        IN  [note |-> k, startTime |-> noteStartTime, endTime |-> noteEndTime,
             triggered |-> FALSE, ons |-> 0, offs |-> 0]]

startMIDIClip(S, id) ==
    LET clip == SessionClips[S.clips[id].slotIndex]
    IN  [S EXCEPT !.clips[id].midiEvents = @ \o ScheduleNotes(clip)]

rescheduleMIDI(S, id) ==
    LET clip == SessionClips[S.clips[id].slotIndex]
    IN  [S EXCEPT !.clips[id].midiEvents = ScheduleNotes(clip)]

startClip(S, id) ==
    LET sc == S.clips[id]
        S1 == [S EXCEPT !.clips[id].state = "playing",
                        !.playing[sc.trackId] = id]
        S2 == IF SessionClips[sc.slotIndex].type = "audio"
              THEN startAudioClip(S1, id)
              ELSE startMIDIClip(S1, id)
    IN  emit(S2, Event("clip-started", sc, id, 0, "none"))

\* Stopping the sources and sending the note-offs of the triggered events
\* leave nothing in the launcher: both lists are emptied.
stopScheduledClip(S, id) ==
    LET sc == S.clips[id]
        S1 == [S EXCEPT !.clips[id].state = "stopped",
                        !.clips[id].sources = << >>,
                        !.clips[id].midiEvents = << >>]
    IN  emit(S1, Event("clip-stopped", sc, id, 0, "none"))

\* launchClip, but a launch leaves an already pending clip of the track in the
\* triggered set
launchClip_keepsPending(S, trackId, slotIndex, quantization, currentPos) ==
    LET q == IF quantization = "global" THEN globalQuantization ELSE quantization
        launchTime == InBeatUnits(getNextQuantizedBeat(Beats(currentPos), q, Rat(bpm)))
        clip == SessionClips[slotIndex]
        currentlyPlaying == S.playing[trackId]
        id == Len(S.clips) + 1
        scheduled == [trackId |-> trackId, slotIndex |-> slotIndex,
                      state |-> "triggered",
                      launchTime |-> IF currentlyPlaying # NoClip /\ clip.legato = "legato"
                                     THEN currentPos ELSE launchTime,
                      stopTime |-> Null, loopCount |-> 0,
                      sources |-> << >>, midiEvents |-> << >>]
        S1 == [S EXCEPT !.clips = Append(@, scheduled)]
        S2 == IF currentlyPlaying # NoClip
              THEN [S1 EXCEPT !.clips[currentlyPlaying].stopTime = launchTime,
                              !.stopping[trackId] = currentlyPlaying]
              ELSE S1
        S3 == IF S2.triggered[trackId] # NoClip THEN S2
              ELSE [S2 EXCEPT !.triggered[trackId] = id]
    IN  IF q = "none" \/ launchTime <= currentPos
        THEN startClip(S3, id)
        ELSE S3

\* launchClip, but the legato override does not ask for a playing clip
launchClip_legatoAlways(S, trackId, slotIndex, quantization, currentPos) ==
    LET q == IF quantization = "global" THEN globalQuantization ELSE quantization
        launchTime == InBeatUnits(getNextQuantizedBeat(Beats(currentPos), q, Rat(bpm)))
        clip == SessionClips[slotIndex]
        currentlyPlaying == S.playing[trackId]
        id == Len(S.clips) + 1
        scheduled == [trackId |-> trackId, slotIndex |-> slotIndex,
                      state |-> "triggered",
                      launchTime |-> IF clip.legato = "legato"
                                     THEN currentPos ELSE launchTime,
                      stopTime |-> Null, loopCount |-> 0,
                      sources |-> << >>, midiEvents |-> << >>]
        S1 == [S EXCEPT !.clips = Append(@, scheduled)]
        S2 == IF currentlyPlaying # NoClip
              THEN [S1 EXCEPT !.clips[currentlyPlaying].stopTime = launchTime,
                              !.stopping[trackId] = currentlyPlaying]
              ELSE S1
        S3 == [S2 EXCEPT !.triggered[trackId] = id]
    IN  IF q = "none" \/ launchTime <= currentPos
        THEN startClip(S3, id)
        ELSE S3

launchClip(S, trackId, slotIndex, quantization, currentPos) ==
    LET q == IF quantization = "global" THEN globalQuantization ELSE quantization
        launchTime == InBeatUnits(getNextQuantizedBeat(Beats(currentPos), q, Rat(bpm)))
        clip == SessionClips[slotIndex]
        currentlyPlaying == S.playing[trackId]
        id == Len(S.clips) + 1
        scheduled == [trackId |-> trackId, slotIndex |-> slotIndex,
                      state |-> "triggered",
                      launchTime |-> IF currentlyPlaying # NoClip /\ clip.legato = "legato"
                                     THEN currentPos ELSE launchTime,
                      stopTime |-> Null, loopCount |-> 0,
                      sources |-> << >>, midiEvents |-> << >>]
        S1 == [S EXCEPT !.clips = Append(@, scheduled)]
        S2 == IF currentlyPlaying # NoClip
              THEN [S1 EXCEPT !.clips[currentlyPlaying].stopTime = launchTime,
                              !.stopping[trackId] = currentlyPlaying]
              ELSE S1
        S3 == [S2 EXCEPT !.triggered[trackId] = id]
    IN  IF q = "none" \/ launchTime <= currentPos
        THEN startClip(S3, id)
        ELSE S3

\* stopClip, but a stop boundary equal to the current beat counts as pending
stopClip_strictBoundary(S, trackId, quantization, currentPos) ==
    LET q == IF quantization = "global" THEN globalQuantization ELSE quantization
        stopTime == InBeatUnits(getNextQuantizedBeat(Beats(currentPos), q, Rat(bpm)))
        pl == S.playing[trackId]
        S1 == IF pl = NoClip THEN S
              ELSE LET Sa == [S EXCEPT !.clips[pl].state = "stopping",
                                       !.clips[pl].stopTime = stopTime,
                                       !.stopping[trackId] = pl]
                   IN  IF q = "none" \/ stopTime < currentPos
                       THEN [stopScheduledClip(Sa, pl) EXCEPT
                                 !.playing[trackId] = NoClip,
                                 !.stopping[trackId] = NoClip]
                       ELSE Sa
    IN  [S1 EXCEPT !.triggered[trackId] = NoClip]

\* stopClip, but the pending clip is cancelled only when a clip was playing
stopClip_keepsTrigger(S, trackId, quantization, currentPos) ==
    LET q == IF quantization = "global" THEN globalQuantization ELSE quantization
        stopTime == InBeatUnits(getNextQuantizedBeat(Beats(currentPos), q, Rat(bpm)))
        pl == S.playing[trackId]
    IN  IF pl = NoClip THEN S
        ELSE LET Sa == [S EXCEPT !.clips[pl].state = "stopping",
                                 !.clips[pl].stopTime = stopTime,
                                 !.stopping[trackId] = pl,
                                 !.triggered[trackId] = NoClip]
             IN  IF q = "none" \/ stopTime <= currentPos
                 THEN [stopScheduledClip(Sa, pl) EXCEPT
                           !.playing[trackId] = NoClip,
                           !.stopping[trackId] = NoClip]
                 ELSE Sa

\* stopClip, but it reports a stop also when the track has no playing clip
stopClip_unguarded(S, trackId, quantization, currentPos) ==
    LET q == IF quantization = "global" THEN globalQuantization ELSE quantization
        stopTime == InBeatUnits(getNextQuantizedBeat(Beats(currentPos), q, Rat(bpm)))
        pl == S.playing[trackId]
        S1 == IF pl = NoClip
              THEN emit(S, [type |-> "clip-stopped", trackId |-> trackId,
                            slotIndex |-> 0, loopCount |-> 0, action |-> "none",
                            id |-> NoClip])
              ELSE LET Sa == [S EXCEPT !.clips[pl].state = "stopping",
                                       !.clips[pl].stopTime = stopTime,
                                       !.stopping[trackId] = pl]
                   IN  IF q = "none" \/ stopTime <= currentPos
                       THEN [stopScheduledClip(Sa, pl) EXCEPT
                                 !.playing[trackId] = NoClip,
                                 !.stopping[trackId] = NoClip]
                       ELSE Sa
    IN  [S1 EXCEPT !.triggered[trackId] = NoClip]

stopClip(S, trackId, quantization, currentPos) ==
    LET q == IF quantization = "global" THEN globalQuantization ELSE quantization
        stopTime == InBeatUnits(getNextQuantizedBeat(Beats(currentPos), q, Rat(bpm)))
        pl == S.playing[trackId]
        S1 == IF pl = NoClip THEN S
              ELSE LET Sa == [S EXCEPT !.clips[pl].state = "stopping",
                                       !.clips[pl].stopTime = stopTime,
                                       !.stopping[trackId] = pl]
                   IN  IF q = "none" \/ stopTime <= currentPos
                       THEN [stopScheduledClip(Sa, pl) EXCEPT
                                 !.playing[trackId] = NoClip,
                                 !.stopping[trackId] = NoClip]
                       ELSE Sa
    IN  [S1 EXCEPT !.triggered[trackId] = NoClip]

\* processFollowAction, but the 'stop' action stops with the global
\* quantization
processFollowAction_quantizedStop(S, id, random, currentPos) ==
    LET sc == S.clips[id]
        followAction == SessionClips[sc.slotIndex].followAction
        action == IF random <= followAction.chanceA
                  THEN followAction.actionA ELSE followAction.actionB
    IN  IF action = "none" THEN S
        ELSE LET S1 == emit(S, Event("follow-action", sc, id, 0, action))
             IN  IF action = "stop"
                 THEN stopClip(S1, sc.trackId, "global", currentPos)
                 ELSE S1

processFollowAction(S, id, random, currentPos) ==
    LET sc == S.clips[id]
        followAction == SessionClips[sc.slotIndex].followAction
        action == IF random <= followAction.chanceA
                  THEN followAction.actionA ELSE followAction.actionB
    IN  IF action = "none" THEN S
        ELSE LET S1 == emit(S, Event("follow-action", sc, id, 0, action))
             IN  IF action = "stop"
                 THEN stopClip(S1, sc.trackId, "none", currentPos)
                 ELSE S1

\* One ScheduledMIDIEvent in a tick: the note-on when its start time has
\* come and it is not yet triggered, then the note-off when it is triggered
\* and its end time has come.
dispatchEvent(event) ==
    LET e1 == IF ~event.triggered /\ now >= event.startTime
              THEN [event EXCEPT !.triggered = TRUE, !.ons = midiSend(@)]
              ELSE event
    IN  IF e1.triggered /\ now >= e1.endTime
        THEN [e1 EXCEPT !.offs = midiSend(@)]
        ELSE e1

dispatchMIDI(S, id) ==
    [S EXCEPT !.clips[id].midiEvents =
                  [k \in DOMAIN @ |-> dispatchEvent(@[k])]]

\* processPlayingClip, but the loop test forgets the + 1
processPlayingClip_earlyLoop(S, id, pos, random) ==
    LET sc == S.clips[id]
        clip == SessionClips[sc.slotIndex]
        clipDuration == clip.duration
        clipPos == pos - sc.launchTime
        S0 == IF clip.type = "midi" THEN dispatchMIDI(S, id) ELSE S
    IN  IF clip.loopEnabled
        THEN LET loopEnd == IF clip.loopEnd # 0 THEN clip.loopEnd ELSE clipDuration
             IN  IF clipPos >= loopEnd * sc.loopCount
                 THEN LET S1 == [S0 EXCEPT !.clips[id].loopCount = @ + 1]
                          S2 == emit(S1, Event("clip-looped", sc, id,
                                               sc.loopCount + 1, "none"))
                          S3 == IF clip.followAction.present
                                THEN processFollowAction(S2, id, random, pos)
                                ELSE S2
                      IN  IF clip.type = "midi" THEN rescheduleMIDI(S3, id) ELSE S3
                 ELSE S0
        ELSE IF clipPos >= clipDuration
             THEN [stopScheduledClip(S0, id) EXCEPT !.playing[sc.trackId] = NoClip]
             ELSE S0

processPlayingClip(S, id, pos, random) ==
    LET sc == S.clips[id]
        clip == SessionClips[sc.slotIndex]
        clipDuration == clip.duration
        clipPos == pos - sc.launchTime
        S0 == IF clip.type = "midi" THEN dispatchMIDI(S, id) ELSE S
    IN  IF clip.loopEnabled
        THEN LET loopEnd == IF clip.loopEnd # 0 THEN clip.loopEnd ELSE clipDuration
             IN  IF clipPos >= loopEnd * (sc.loopCount + 1)
                 THEN LET S1 == [S0 EXCEPT !.clips[id].loopCount = @ + 1]
                          S2 == emit(S1, Event("clip-looped", sc, id,
                                               sc.loopCount + 1, "none"))
                          S3 == IF clip.followAction.present
                                THEN processFollowAction(S2, id, random, pos)
                                ELSE S2
                      IN  IF clip.type = "midi" THEN rescheduleMIDI(S3, id) ELSE S3
                 ELSE S0
        ELSE IF clipPos >= clipDuration
             THEN [stopScheduledClip(S0, id) EXCEPT !.playing[sc.trackId] = NoClip]
             ELSE S0

\* The three scans of one scheduler tick.  Each visits the entries of one
\* Map; what a visit does touches only the entries of the visited track, so
\* the tracks are visited in index order.
RECURSIVE scanTriggered(_, _, _)
scanTriggered(S, t, pos) ==
    IF t > NumTracks THEN S
    ELSE LET id == S.triggered[t]
             S1 == IF id # NoClip /\ pos >= S.clips[id].launchTime
                   THEN [startClip(S, id) EXCEPT !.triggered[t] = NoClip]
                   ELSE S
         IN  scanTriggered(S1, t + 1, pos)

RECURSIVE scanStopping(_, _, _)
scanStopping(S, t, pos) ==
    IF t > NumTracks THEN S
    ELSE LET id == S.stopping[t]
             S1 == IF id # NoClip /\ S.clips[id].stopTime # Null
                                  /\ pos >= S.clips[id].stopTime
                   THEN [stopScheduledClip(S, id) EXCEPT
                             !.playing[t] = NoClip, !.stopping[t] = NoClip]
                   ELSE S
         IN  scanStopping(S1, t + 1, pos)

RECURSIVE scanPlaying(_, _, _, _)
scanPlaying(S, t, pos, random) ==
    IF t > NumTracks THEN S
    ELSE LET id == S.playing[t]
             S1 == IF id # NoClip
                   THEN processPlayingClip(S, id, pos, random[t])
                   ELSE S
         IN  scanPlaying(S1, t + 1, pos, random)

tick(S, pos, random) ==
    scanPlaying(scanStopping(scanTriggered(S, 1, pos), 1, pos), 1, pos, random)

RECURSIVE launchSceneFrom(_, _, _, _, _)
launchSceneFrom(S, t, scene, quantization, currentPos) ==
    IF t > NumTracks THEN S
    ELSE LET S1 == IF scene[t] # 0
                   THEN launchClip(S, t, scene[t], quantization, currentPos)
                   ELSE S
         IN  launchSceneFrom(S1, t + 1, scene, quantization, currentPos)

RECURSIVE stopAllFrom(_, _, _, _)
stopAllFrom(S, t, quantization, currentPos) ==
    IF t > NumTracks THEN [S EXCEPT !.triggered = [x \in Tracks |-> NoClip]]
    ELSE LET S1 == IF S.playing[t] # NoClip
                   THEN stopClip(S, t, quantization, currentPos)
                   ELSE S
         IN  stopAllFrom(S1, t + 1, quantization, currentPos)

RECURSIVE stopPlayingFrom(_, _)
stopPlayingFrom(S, t) ==
    IF t > NumTracks THEN S
    ELSE stopPlayingFrom(IF S.playing[t] # NoClip
                         THEN stopScheduledClip(S, S.playing[t]) ELSE S, t + 1)

\* ------------------------------------------------------------ warp markers
\* WarpEngine.settings.markers is the sequence `markers` of records
\* [id, sampleTime, beatTime], the times being exact fractions.
originalBPM == 120

\* the times markers are added at, and the positions that are converted
MarkerSampleTimes == {<<0, 2>>, <<2, 2>>, <<4, 2>>}
MarkerBeatTimes == {<<0, 2>>, <<4, 2>>, <<9, 2>>}
SamplePositions == {<<n, 2>> : n \in {0, 1, 2, 3, 4, 6}}
BeatPositions == {<<n, 2>> : n \in {0, 2, 4, 6, 9, 12}}

\* an id no marker of m has
generateId(m) ==
    CHOOSE id \in 1..(Len(m) + 1) :
        /\ \A i \in DOMAIN m : m[i].id # id
        /\ \A other \in 1..(id - 1) : \E i \in DOMAIN m : m[i].id = other

\* Array.prototype.sort with (a, b) => a.sampleTime - b.sampleTime: a stable
\* sort, so markers of equal sampleTime keep their order
RECURSIVE sortBySampleTime(_)
sortBySampleTime(m) ==
    IF m = << >> THEN << >>
    ELSE LET sorted == sortBySampleTime(SubSeq(m, 1, Len(m) - 1))
             mk == m[Len(m)]
             k == Cardinality({i \in DOMAIN sorted :
                                 RLe(sorted[i].sampleTime, mk.sampleTime)})
         IN  SubSeq(sorted, 1, k) \o <<mk>> \o SubSeq(sorted, k + 1, Len(sorted))

\* addMarker without the sort after the push
addMarker_pushOnly(m, sampleTime, beatTime) ==
    Append(m, [id |-> generateId(m),
               sampleTime |-> sampleTime,
               beatTime |-> beatTime])

addMarker(m, sampleTime, beatTime) ==
    sortBySampleTime(Append(m, [id |-> generateId(m),
                                sampleTime |-> sampleTime,
                                beatTime |-> beatTime]))

removeMarker(m, id) == SelectSeq(m, LAMBDA mk : mk.id # id)

\* The i at which the loop over the segments returns, 0 if it returns at
\* none: the first of the segments the test of the loop holds for.
FirstSegment(holds) ==
    IF holds = {} THEN 0
    ELSE CHOOSE i \in holds : \A j \in holds : i <= j

sampleToBeat(m, sampleTime) ==
    IF Len(m) < 2 THEN secondsToBeats(sampleTime, Rat(originalBPM))
    ELSE LET i == FirstSegment({k \in 1..(Len(m) - 1) :
                                   /\ RLe(m[k].sampleTime, sampleTime)
                                   /\ RLe(sampleTime, m[k + 1].sampleTime)})
         IN  IF i # 0
             THEN LET sampleRange == RSub(m[i + 1].sampleTime, m[i].sampleTime)
                      beatRange == RSub(m[i + 1].beatTime, m[i].beatTime)
                      t == RDiv(RSub(sampleTime, m[i].sampleTime), sampleRange)
                  IN  RAdd(m[i].beatTime, RMul(t, beatRange))
             ELSE LET last == m[Len(m)]
                  IN  RAdd(last.beatTime,
                           secondsToBeats(RSub(sampleTime, last.sampleTime),
                                          Rat(originalBPM)))

\* beatToSample, but the fraction of the segment is scaled by the beat range
beatToSample_scalesByBeatRange(m, beatTime) ==
    IF Len(m) < 2 THEN beatsToSeconds(beatTime, Rat(originalBPM))
    ELSE LET i == FirstSegment({k \in 1..(Len(m) - 1) :
                                   /\ RLe(m[k].beatTime, beatTime)
                                   /\ RLe(beatTime, m[k + 1].beatTime)})
         IN  IF i # 0
             THEN LET beatRange == RSub(m[i + 1].beatTime, m[i].beatTime)
                      sampleRange == RSub(m[i + 1].sampleTime, m[i].sampleTime)
                      t == RDiv(RSub(beatTime, m[i].beatTime), beatRange)
                  IN  RAdd(m[i].sampleTime, RMul(t, beatRange))
             ELSE LET last == m[Len(m)]
                  IN  RAdd(last.sampleTime,
                           beatsToSeconds(RSub(beatTime, last.beatTime),
                                          Rat(originalBPM)))

beatToSample(m, beatTime) ==
    IF Len(m) < 2 THEN beatsToSeconds(beatTime, Rat(originalBPM))
    ELSE LET i == FirstSegment({k \in 1..(Len(m) - 1) :
                                   /\ RLe(m[k].beatTime, beatTime)
                                   /\ RLe(beatTime, m[k + 1].beatTime)})
         IN  IF i # 0
             THEN LET beatRange == RSub(m[i + 1].beatTime, m[i].beatTime)
                      sampleRange == RSub(m[i + 1].sampleTime, m[i].sampleTime)
                      t == RDiv(RSub(beatTime, m[i].beatTime), beatRange)
                  IN  RAdd(m[i].sampleTime, RMul(t, sampleRange))
             ELSE LET last == m[Len(m)]
                  IN  RAdd(last.sampleTime,
                           beatsToSeconds(RSub(beatTime, last.beatTime),
                                          Rat(originalBPM)))

\* ----------------------------------------------------------- time stretching
\* WarpEngine.process and the stretch routines.  Samples and positions are
\* exact fractions, kept in lowest terms (Norm); <<0, 0>> is NaN and <<1, 0>>
\* is Infinity.  The rounding of a sample to 32 bits when it is stored is not
\* modelled.  `engine` holds
\* the source buffer, the settings other than the markers, what the last
\* process call returned, and, while process runs, its local variables
\* (`run`); run.iterations counts the iterations of the while loop that is
\* running.
NaN == <<0, 0>>

Abs(n) == IF n < 0 THEN 0 - n ELSE n

RECURSIVE GCD(_, _)
GCD(a, b) == IF b = 0 THEN a ELSE GCD(b, a % b)

\* the fraction in lowest terms
Norm(a) ==
    IF a[2] = 0 THEN <<IF a[1] > 0 THEN 1 ELSE IF a[1] < 0 THEN 0 - 1 ELSE 0, 0>>
    ELSE LET g == GCD(Abs(a[1]), a[2]) IN <<a[1] \div g, a[2] \div g>>

\* Math.abs
RAbs(a) == <<Abs(a[1]), a[2]>>

\* Math.floor
Floor(a) == IF a[2] = 0 THEN Norm(a) ELSE Rat(a[1] \div a[2])

\* the remainder operator a % b of JavaScript: the sign is the dividend's,
\* and a % 0 is NaN
Remainder(a, b) ==
    IF a[2] = 0 \/ b[2] = 0 \/ b[1] = 0 THEN NaN
    ELSE LET q == RDiv(RAbs(a), RAbs(b))
             r == RSub(RAbs(a), RMul(Rat(q[1] \div q[2]), RAbs(b)))
         IN  Norm(IF a[1] < 0 THEN RSub(Rat(0), r) ELSE r)

\* array[index] read as a number: undefined, so NaN, outside the array
At(array, index) ==
    IF index[2] = 1 /\ index[1] >= 0 /\ index[1] < Len(array)
    THEN array[index[1] + 1] ELSE NaN

\* Array.prototype.slice(from, to) for 0 <= from
Slice(array, from, to) ==
    SubSeq(array, from + 1, IF to < Len(array) THEN to ELSE Len(array))

\* a Float32Array of n zeros
Zeros(n) == [k \in 1..n |-> Rat(0)]

GrainRate == 44100
fftSize == 2048
WindowSizes == {256, 512, 1024, 2048, 4096}

\* window.data[k] of the Hann window of `size` points,
\* 0.5 * (1 - cos(2 pi k / (size - 1))), to the nearest half
HannWindow(k, size) ==
    IF 6 * k < size - 1 \/ 6 * k > 5 * (size - 1) THEN Rat(0)
    ELSE IF 3 * k > size - 1 /\ 3 * k < 2 * (size - 1) THEN Rat(1)
    ELSE <<1, 2>>

\* the size of the closest pre-computed window, the smaller one of two that
\* are equally close
getGrainWindow(size) ==
    CHOOSE s \in WindowSizes :
        \A t \in WindowSizes :
            \/ Abs(s - size) < Abs(t - size)
            \/ Abs(s - size) = Abs(t - size) /\ s <= t

\* Math.floor((grainSizeMs / 1000) * 44100)
GrainSamples(grainSizeMs) ==
    Floor(RMul(RDiv(grainSizeMs, Rat(1000)), Rat(GrainRate)))[1]

\* an AudioBuffer: `channels` are the channel data; no buffer is null
NoBuffer == [sampleRate |-> 0, channels |-> << >>]

BufferLength(buffer) == Len(buffer.channels[1])

BufferDuration(buffer) == <<BufferLength(buffer), buffer.sampleRate>>

createBuffer(numberOfChannels, length, sampleRate) ==
    [sampleRate |-> sampleRate,
     channels |-> [ch \in 1..numberOfChannels |-> Zeros(length)]]

\* what process returned: nothing yet, null, the source buffer itself, a new
\* buffer, or a RangeError it was rejected with
Returned(kind, buffer, targetDuration) ==
    [kind |-> kind, buffer |-> buffer, targetDuration |-> targetDuration]

NoResult == Returned("none", NoBuffer, Rat(0))

NoRun ==
    [pc |-> "idle", targetDuration |-> Rat(0), stretchRatio |-> Rat(0),
     outputBuffer |-> NoBuffer, ch |-> 0, i |-> 0, processPos |-> 0,
     targetLength |-> 0, outputData |-> << >>,
     input |-> << >>, output |-> << >>, ratio |-> Rat(0), grainSize |-> 0,
     hopIn |-> 0, hopOut |-> Rat(0), inputPos |-> Rat(0), outputPos |-> Rat(0),
     iterations |-> 0]

\* the entry of granularStretch, textureGranularStretch ('texture') and
\* phaseVocoderStretch ('overlapAdd') up to the while loop
beginStretch(E, routine, input, output, ratio) ==
    LET size == IF routine = "overlapAdd" THEN fftSize
                ELSE GrainSamples(E.grainSize)
        hopIn == size \div 4
    IN  [E EXCEPT !.run.pc = routine, !.run.input = input,
                  !.run.output = Zeros(Len(output)), !.run.ratio = ratio,
                  !.run.grainSize = size, !.run.hopIn = hopIn,
                  !.run.hopOut = Floor(RMul(Rat(hopIn), ratio)),
                  !.run.inputPos = Rat(0), !.run.outputPos = Rat(0),
                  !.run.iterations = 0]

\* the peak the normalisation loops compute: Math.max keeps a NaN
Peak(output) ==
    IF \E k \in DOMAIN output : output[k][2] = 0 THEN NaN
    ELSE IF output = << >> THEN Rat(0)
    ELSE LET k == CHOOSE k \in DOMAIN output :
                      \A j \in DOMAIN output : RLe(RAbs(output[j]), RAbs(output[k]))
         IN  IF RLt(Rat(0), RAbs(output[k])) THEN RAbs(output[k]) ELSE Rat(0)

\* the normalisation at the end of a routine
normalize(output, routine) ==
    LET maxVal == Peak(output)
    IN  IF routine = "overlapAdd"
        THEN IF RLt(<<1, 100>>, maxVal)
             THEN [k \in DOMAIN output |->
                      Norm(RMul(output[k], RDiv(Rat(1), maxVal)))]
             ELSE output
        ELSE IF RLt(Rat(1), maxVal)
             THEN [k \in DOMAIN output |-> Norm(RDiv(output[k], maxVal))]
             ELSE output

\* one grain added to the output at outputPos: the for loop of the routines
\* over i, which stops at the end of the output
addGrain(R, inStart, ampVar) ==
    LET size == getGrainWindow(R.grainSize)
        pos == R.outputPos[1]
    IN  [k \in DOMAIN R.output |->
            LET i == (k - 1) - pos
            IN  IF i >= 0 /\ i < R.grainSize
                THEN LET inIdx == IF R.pc = "granular"
                                  THEN IF RLt(RAdd(inStart, Rat(i)),
                                              Rat(Len(R.input) - 1))
                                       THEN RAdd(inStart, Rat(i))
                                       ELSE Rat(Len(R.input) - 1)
                                  ELSE RAdd(inStart, Rat(i))
                         winIdx == (i * size) \div R.grainSize
                     IN  Norm(RAdd(R.output[k],
                                   RMul(RMul(At(R.input, inIdx),
                                             HannWindow(winIdx, size)),
                                        ampVar)))
                ELSE R.output[k]]

\* processBeatsMode at segment i of the markers (i < markers.length - 1): the
\* segment is cut out and granularStretch is entered; new Float32Array of a
\* negative length throws a RangeError, which rejects the promise
enterSegment(E, m, i) ==
    LET R == E.run
        sampleRate == E.sourceBuffer.sampleRate
        inputData == E.sourceBuffer.channels[R.ch]
        inputStart == Floor(RMul(m[i].sampleTime, Rat(sampleRate)))[1]
        inputEnd == Floor(RMul(m[i + 1].sampleTime, Rat(sampleRate)))[1]
        inputLength == inputEnd - inputStart
        targetStart ==
            Norm(beatsToSeconds(Norm(RMul(Norm(m[i].beatTime), R.stretchRatio)),
                                Rat(originalBPM)))
        targetEnd ==
            Norm(beatsToSeconds(Norm(RMul(Norm(m[i + 1].beatTime),
                                          R.stretchRatio)),
                                Rat(originalBPM)))
        targetLength == Floor(RMul(Norm(RSub(targetEnd, targetStart)),
                                   Rat(sampleRate)))[1]
    IN  IF targetLength < 0
        THEN [E EXCEPT !.run = NoRun,
                       !.result = Returned("RangeError", NoBuffer,
                                           R.targetDuration)]
        ELSE beginStretch([E EXCEPT !.run.i = i,
                                    !.run.targetLength = targetLength],
                          "granular", Slice(inputData, inputStart, inputEnd),
                          Zeros(targetLength),
                          RDiv(Rat(targetLength), Rat(inputLength)))

\* the body of the loop over the channels in processBeatsMode,
\* processTonesMode and processTextureMode, up to the first stretch loop;
\* past the last channel the output buffer is returned
enterChannel(E, m, ch) ==
    IF ch > Len(E.sourceBuffer.channels)
    THEN [E EXCEPT !.run = NoRun,
                   !.result = Returned("buffer", E.run.outputBuffer,
                                       E.run.targetDuration)]
    ELSE LET E1 == [E EXCEPT !.run.ch = ch, !.run.i = 0,
                             !.run.processPos = 0,
                             !.run.outputData = E.run.outputBuffer.channels[ch]]
             inputData == E.sourceBuffer.channels[ch]
             outputData == E1.run.outputData
         IN  CASE E.mode = "beats" ->
                    IF Len(m) < 2
                    THEN beginStretch(E1, "granular", inputData, outputData,
                                      E.run.stretchRatio)
                    ELSE enterSegment(E1, m, 1)
               [] E.mode = "texture" ->
                    beginStretch(E1, "texture", inputData, outputData,
                                 E.run.stretchRatio)
               [] OTHER ->
                    beginStretch(E1, "overlapAdd", inputData, outputData,
                                 E.run.stretchRatio)

\* a stretch routine returns: into the segment loop of processBeatsMode,
\* which copies the segment to the output, or into the loop over the channels
returnFromStretch(E, m, output) ==
    LET R == E.run
    IN  IF R.i = 0
        THEN enterChannel([E EXCEPT !.run.outputBuffer.channels[R.ch] = output],
                          m, R.ch + 1)
        ELSE LET outputData ==
                     [k \in DOMAIN R.outputData |->
                         LET j == (k - 1) - R.processPos
                         IN  IF j >= 0 /\ j < R.targetLength
                             THEN output[j + 1] ELSE R.outputData[k]]
                 E1 == [E EXCEPT !.run.outputData = outputData,
                                 !.run.processPos = @ + R.targetLength]
             IN  IF R.i + 1 <= Len(m) - 1
                 THEN enterSegment(E1, m, R.i + 1)
                 ELSE enterChannel(
                          [E1 EXCEPT !.run.outputBuffer.channels[R.ch] =
                                         outputData],
                          m, R.ch + 1)

\* the end of a stretch routine: its while loop is left
leaveLoop(E, m) ==
    returnFromStretch(E, m, normalize(E.run.output, E.run.pc))

\* One evaluation of the while condition of the running routine and, where
\* it holds, one iteration; random1 and random2 are the values Math.random()
\* returns in textureGranularStretch.
stretchStep(E, m, random1, random2) ==
    LET R == E.run
        inLoop == RLt(R.outputPos, Rat(Len(R.output) - R.grainSize))
        advanced == [E EXCEPT !.run.outputPos = RAdd(@, R.hopOut),
                              !.run.iterations = @ + 1]
    IN  IF ~inLoop THEN leaveLoop(E, m)
        ELSE IF R.pc = "texture"
        THEN LET inputLength == Len(R.input)
                 jitter == RMul(RMul(RSub(random1, <<1, 2>>), Rat(R.grainSize)),
                                Rat(2))
                 inStart ==
                     Floor(Remainder(
                         RAdd(RMul(RDiv(R.outputPos, Rat(Len(R.output))),
                                   Rat(inputLength)), jitter),
                         Rat(inputLength - R.grainSize)))
                 ampVar == RAdd(<<4, 5>>, RMul(random2, <<2, 5>>))
             IN  IF \/ RLt(inStart, Rat(0))
                    \/ RLe(Rat(inputLength - R.grainSize), inStart)
                 THEN advanced
                 ELSE [advanced EXCEPT
                          !.run.output = addGrain(R, inStart, ampVar)]
        ELSE LET inStart == Floor(R.inputPos)
             IN  IF RLe(Rat(Len(R.input) - R.grainSize), inStart)
                 THEN leaveLoop(E, m)
                 ELSE [advanced EXCEPT
                          !.run.output = addGrain(R, inStart, Rat(1)),
                          !.run.inputPos = RAdd(@, Rat(R.hopIn))]

\* processBeatsMode, processTonesMode (also for 'complex') and
\* processTextureMode up to the first stretch loop
processMode(E, m, targetDuration, stretchRatio) ==
    LET sampleRate == E.sourceBuffer.sampleRate
        channels == Len(E.sourceBuffer.channels)
        outputLength == Floor(RMul(targetDuration, Rat(sampleRate)))[1]
    IN  enterChannel(
            [E EXCEPT !.run.targetDuration = targetDuration,
                      !.run.stretchRatio = stretchRatio,
                      !.run.outputBuffer =
                          createBuffer(channels, outputLength, sampleRate)],
            m, 1)

\* process with the test of settings.enabled before the test of the source
process_enabledFirst(E, m, targetDuration) ==
    IF ~E.enabled
    THEN [E EXCEPT !.result = Returned("source", E.sourceBuffer, targetDuration)]
    ELSE IF E.sourceBuffer = NoBuffer
    THEN [E EXCEPT !.result = Returned("null", NoBuffer, targetDuration)]
    ELSE LET stretchRatio ==
                 Norm(RDiv(targetDuration, BufferDuration(E.sourceBuffer)))
         IN  IF E.mode \in {"beats", "tones", "texture", "complex"}
             THEN processMode(E, m, targetDuration, stretchRatio)
             ELSE [E EXCEPT !.result = Returned("source", E.sourceBuffer,
                                                targetDuration)]

process(E, m, targetDuration) ==
    IF E.sourceBuffer = NoBuffer
    THEN [E EXCEPT !.result = Returned("null", NoBuffer, targetDuration)]
    ELSE IF ~E.enabled
    THEN [E EXCEPT !.result = Returned("source", E.sourceBuffer, targetDuration)]
    ELSE LET stretchRatio ==
                 Norm(RDiv(targetDuration, BufferDuration(E.sourceBuffer)))
         IN  IF E.mode \in {"beats", "tones", "texture", "complex"}
             THEN processMode(E, m, targetDuration, stretchRatio)
             ELSE [E EXCEPT !.result = Returned("source", E.sourceBuffer,
                                                targetDuration)]

\* detectTransients for data of at most 512 samples (frameSize), for which
\* the loop over the frames does not run: the transient at 0 only
detectTransients(data, sampleRate) == << Rat(0) >>

RECURSIVE markersAt(_, _)
markersAt(transients, m) ==
    IF transients = << >> THEN m
    ELSE markersAt(Tail(transients),
                   Append(m, [id |-> generateId(m),
                              sampleTime |-> Head(transients),
                              beatTime |-> secondsToBeats(Head(transients),
                                                          Rat(originalBPM))]))

autoDetectMarkers(buffer) ==
    markersAt(detectTransients(buffer.channels[1], buffer.sampleRate), << >>)

\* setSourceBuffer: the markers after it
setSourceBuffer(m, buffer) ==
    IF Len(m) = 0 THEN autoDetectMarkers(buffer) ELSE m

\* a WarpEngine after its constructor
NewEngine ==
    [sourceBuffer |-> NoBuffer, enabled |-> TRUE, mode |-> "beats",
     grainSize |-> Rat(50), result |-> NoResult, run |-> NoRun]

\* ------------------------------------------------------------------ actions
\* A ScheduledClip that no Map refers to any more is unreachable for every
\* handler: its slot and timing fields are dropped (garbage), its identity,
\* track and last state are kept.
Reachable(S, id) ==
    \E t \in Tracks : id \in {S.playing[t], S.triggered[t], S.stopping[t]}

Collect(S) ==
    [id \in DOMAIN S.clips |->
        IF Reachable(S, id) THEN S.clips[id]
        ELSE [S.clips[id] EXCEPT !.slotIndex = 1, !.launchTime = 0,
                                 !.stopTime = Null, !.loopCount = 0,
                                 !.sources = << >>, !.midiEvents = << >>]]

Commit(S) ==
    /\ clips' = Collect(S)
    /\ playing' = S.playing
    /\ triggered' = S.triggered
    /\ stopping' = S.stopping
    /\ emitted' = S.emitted

\* `calc` is the last call of a helper: the function, its argument and what
\* it returned; `via` and `origin` are the function and the argument of the
\* call whose result was passed on as the argument, if one was.  With fn = ""
\* no helper has been called (since the markers last changed).
NoCalc == [fn |-> "", via |-> "", arg |-> Rat(0), unit |-> "none",
           tempo |-> Rat(bpm), result |-> Rat(0), origin |-> Rat(0)]

\* a launcher and a warp engine as their constructors leave them
Constructed ==
    /\ clips = <<>>
    /\ playing = [t \in Tracks |-> NoClip]
    /\ triggered = [t \in Tracks |-> NoClip]
    /\ stopping = [t \in Tracks |-> NoClip]
    /\ emitted = <<>>
    /\ transportState = "stopped"
    /\ position = 0
    /\ elapsed = 0
    /\ tickerId = FALSE
    /\ globalQuantization = "1-bar"
    /\ sampleCache = {}
    /\ midiOutput = FALSE
    /\ op = "new"
    /\ markers = << >>
    /\ engine = NewEngine

Init ==
    /\ Constructed
    /\ calc = NoCalc

\* setMIDIOutput with a callback
SetMIDIOutput ==
    /\ midiOutput' = TRUE
    /\ emitted' = << >>
    /\ op' = "setMIDIOutput"
    /\ UNCHANGED <<clips, playing, triggered, stopping, transportState,
                   position, elapsed, tickerId, globalQuantization,
                   sampleCache, markers, calc, engine>>

LoadSample(sampleId) ==
    /\ sampleCache' = sampleCache \cup {sampleId}
    /\ emitted' = << >>
    /\ op' = "loadSample"
    /\ UNCHANGED <<clips, playing, triggered, stopping, transportState,
                   position, elapsed, tickerId, globalQuantization,
                   midiOutput, markers, calc, engine>>

\* context.currentTime advances.  `elapsed` is context.currentTime -
\* this.startTime, the only way the handlers read the clock.  While the
\* transport is not playing the clock is not read (getPosition returns
\* this.position) and start() takes a new startTime, so `elapsed` is kept at
\* 0 then.
Advance ==
    /\ transportState = "playing"
    /\ elapsed + ClockStep <= MaxElapsed
    /\ elapsed' = elapsed + ClockStep
    /\ emitted' = <<>>
    /\ op' = "clock"
    /\ UNCHANGED <<clips, playing, triggered, stopping, transportState,
                   position, tickerId, globalQuantization, sampleCache,
                   midiOutput, markers, calc, engine>>

Start(p) ==
    /\ transportState # "playing"
    /\ transportState' = "playing"
    /\ position' = p
    /\ elapsed' = 0
    /\ tickerId' = TRUE
    /\ emitted' = <<>>
    /\ op' = "start"
    /\ UNCHANGED <<clips, playing, triggered, stopping, globalQuantization,
                   sampleCache, midiOutput, markers, calc, engine>>

Stop ==
    /\ transportState' = "stopped"
    /\ LET S == stopPlayingFrom(Launcher, 1)
       IN  Commit([S EXCEPT !.playing = [t \in Tracks |-> NoClip],
                            !.triggered = [t \in Tracks |-> NoClip],
                            !.stopping = [t \in Tracks |-> NoClip]])
    /\ tickerId' = FALSE
    /\ elapsed' = 0
    /\ op' = "stop"
    /\ UNCHANGED <<position, globalQuantization, sampleCache, midiOutput,
                   markers, calc, engine>>

SetGlobalQuantization(q) ==
    /\ globalQuantization' = q
    /\ emitted' = <<>>
    /\ op' = "setGlobalQuantization"
    /\ UNCHANGED <<clips, playing, triggered, stopping, transportState,
                   position, elapsed, tickerId, sampleCache, midiOutput,
                   markers, calc, engine>>

LaunchClip(trackId, slotIndex, quantization) ==
    /\ Len(clips) < MaxLaunches
    /\ Commit(launchClip(Launcher, trackId, slotIndex, quantization, getPosition))
    /\ op' = "launchClip"
    /\ UNCHANGED <<transportState, position, elapsed, tickerId,
                   globalQuantization, sampleCache, midiOutput, markers, calc, engine>>

StopClip(trackId, quantization) ==
    /\ Commit(stopClip(Launcher, trackId, quantization, getPosition))
    /\ op' = "stopClip"
    /\ UNCHANGED <<transportState, position, elapsed, tickerId,
                   globalQuantization, sampleCache, midiOutput, markers, calc, engine>>

\* scene[t] is the slot launched on track t, 0 for a track the scene leaves out
LaunchScene(scene, quantization) ==
    /\ Len(clips) + Cardinality({t \in Tracks : scene[t] # 0}) <= MaxLaunches
    /\ Cardinality({t \in Tracks : scene[t] # 0}) >= 2
    /\ Commit(launchSceneFrom(Launcher, 1, scene, quantization, getPosition))
    /\ op' = "launchScene"
    /\ UNCHANGED <<transportState, position, elapsed, tickerId,
                   globalQuantization, sampleCache, midiOutput, markers, calc, engine>>

StopAll(quantization) ==
    /\ Commit(stopAllFrom(Launcher, 1, quantization, getPosition))
    /\ op' = "stopAll"
    /\ UNCHANGED <<transportState, position, elapsed, tickerId,
                   globalQuantization, sampleCache, midiOutput, markers, calc, engine>>

\* the requestAnimationFrame callback
Tick ==
    /\ tickerId
    /\ transportState = "playing"
    /\ \E random \in [Tracks -> RandomDraws] :
           Commit(tick(Launcher, getPosition, random))
    /\ op' = "tick"
    /\ UNCHANGED <<transportState, position, elapsed, tickerId,
                   globalQuantization, sampleCache, midiOutput, markers, calc, engine>>

\* process runs to its end before anything else is called
Idle == engine.run.pc = "idle"

\* the engine once the buffer the last process call returned is dropped
Forget == [engine EXCEPT !.result = NoResult]

\* WarpEngine.addMarker
AddMarker(sampleTime, beatTime) ==
    /\ Idle
    /\ Len(markers) < MaxMarkers
    /\ markers' = addMarker(markers, sampleTime, beatTime)
    /\ calc' = NoCalc
    /\ op' = "addMarker"
    /\ engine' = Forget
    /\ UNCHANGED launcherVars

\* WarpEngine.removeMarker
RemoveMarker(id) ==
    /\ Idle
    /\ markers' = removeMarker(markers, id)
    /\ calc' = [NoCalc EXCEPT !.fn = "removeMarker", !.arg = Rat(id)]
    /\ op' = "removeMarker"
    /\ engine' = Forget
    /\ UNCHANGED launcherVars

\* WarpEngine.clearMarkers
ClearMarkers ==
    /\ Idle
    /\ markers' = << >>
    /\ calc' = NoCalc
    /\ op' = "clearMarkers"
    /\ engine' = Forget
    /\ UNCHANGED launcherVars

\* WarpEngine.sampleToBeat
SampleToBeat(sampleTime) ==
    /\ calc' = [NoCalc EXCEPT !.fn = "sampleToBeat", !.arg = sampleTime,
                              !.origin = sampleTime,
                              !.result = sampleToBeat(markers, sampleTime)]
    /\ op' = "sampleToBeat"
    /\ UNCHANGED <<launcherVars, markers, engine>>

\* WarpEngine.beatToSample
BeatToSample(beatTime) ==
    /\ calc' = [NoCalc EXCEPT !.fn = "beatToSample", !.arg = beatTime,
                              !.origin = beatTime,
                              !.result = beatToSample(markers, beatTime)]
    /\ op' = "beatToSample"
    /\ UNCHANGED <<launcherVars, markers, engine>>

\* beatToSample of the beat sampleToBeat has just returned
BeatToSampleBack ==
    /\ calc.fn = "sampleToBeat"
    /\ calc.via = ""
    /\ calc' = [calc EXCEPT !.fn = "beatToSample", !.via = calc.fn,
                            !.arg = calc.result,
                            !.result = beatToSample(markers, calc.result)]
    /\ op' = "beatToSample"
    /\ UNCHANGED <<launcherVars, markers, engine>>

\* getNextQuantizedBeat of the inputs
GetNextQuantizedBeat ==
    /\ calc.fn = ""
    /\ calc' = [calc EXCEPT !.fn = "getNextQuantizedBeat",
                            !.result = getNextQuantizedBeat(
                                           calc.arg, calc.unit, calc.tempo)]
    /\ op' = "getNextQuantizedBeat"
    /\ UNCHANGED <<launcherVars, markers, engine>>

\* getNextQuantizedBeat of the beat it has just returned
GetNextQuantizedBeatAgain ==
    /\ calc.fn = "getNextQuantizedBeat"
    /\ calc.via = ""
    /\ calc' = [calc EXCEPT !.via = calc.fn, !.arg = calc.result,
                            !.result = getNextQuantizedBeat(
                                           calc.result, calc.unit, calc.tempo)]
    /\ op' = "getNextQuantizedBeat"
    /\ UNCHANGED <<launcherVars, markers, engine>>

\* beatsToSeconds of the inputs
BeatsToSeconds ==
    /\ calc.fn = ""
    /\ calc' = [calc EXCEPT !.fn = "beatsToSeconds",
                            !.result = beatsToSeconds(calc.arg, calc.tempo)]
    /\ op' = "beatsToSeconds"
    /\ UNCHANGED <<launcherVars, markers, engine>>

\* secondsToBeats of the inputs
SecondsToBeats ==
    /\ calc.fn = ""
    /\ calc' = [calc EXCEPT !.fn = "secondsToBeats",
                            !.result = secondsToBeats(calc.arg, calc.tempo)]
    /\ op' = "secondsToBeats"
    /\ UNCHANGED <<launcherVars, markers, engine>>

\* secondsToBeats of the seconds beatsToSeconds has just returned
SecondsToBeatsBack ==
    /\ calc.fn = "beatsToSeconds"
    /\ calc.via = ""
    /\ calc' = [calc EXCEPT !.fn = "secondsToBeats", !.via = calc.fn,
                            !.arg = calc.result,
                            !.result = secondsToBeats(calc.result, calc.tempo)]
    /\ op' = "secondsToBeats"
    /\ UNCHANGED <<launcherVars, markers, engine>>

\* beatsToSeconds of the beats secondsToBeats has just returned
BeatsToSecondsBack ==
    /\ calc.fn = "secondsToBeats"
    /\ calc.via = ""
    /\ calc' = [calc EXCEPT !.fn = "beatsToSeconds", !.via = calc.fn,
                            !.arg = calc.result,
                            !.result = beatsToSeconds(calc.result, calc.tempo)]
    /\ op' = "beatsToSeconds"
    /\ UNCHANGED <<launcherVars, markers, engine>>

\* WarpEngine.setSourceBuffer
SetSourceBuffer(buffer) ==
    /\ Idle
    /\ engine' = [Forget EXCEPT !.sourceBuffer = buffer]
    /\ markers' = setSourceBuffer(markers, buffer)
    /\ calc' = IF markers' = markers THEN calc ELSE NoCalc
    /\ op' = "setSourceBuffer"
    /\ UNCHANGED launcherVars

\* WarpEngine.setWarpMode
SetWarpMode(mode) ==
    /\ Idle
    /\ engine' = [Forget EXCEPT !.mode = mode]
    /\ op' = "setWarpMode"
    /\ UNCHANGED <<launcherVars, markers, calc>>

\* WarpEngine.setSettings({ grainSize })
SetGrainSize(grainSize) ==
    /\ Idle
    /\ engine' = [Forget EXCEPT !.grainSize = grainSize]
    /\ op' = "setSettings"
    /\ UNCHANGED <<launcherVars, markers, calc>>

\* WarpEngine.setSettings({ enabled })
SetEnabled(enabled) ==
    /\ Idle
    /\ engine' = [Forget EXCEPT !.enabled = enabled]
    /\ op' = "setSettings"
    /\ UNCHANGED <<launcherVars, markers, calc>>

\* WarpEngine.destroy
Destroy ==
    /\ Idle
    /\ engine' = [Forget EXCEPT !.sourceBuffer = NoBuffer]
    /\ op' = "destroy"
    /\ UNCHANGED <<launcherVars, markers, calc>>

\* WarpEngine.process, up to its return or to the first stretch loop
Process(targetDuration) ==
    /\ Idle
    /\ engine' = process(Forget, markers, targetDuration)
    /\ op' = "process"
    /\ UNCHANGED <<launcherVars, markers, calc>>

\* process goes on: the while condition of the stretch routine it is in is
\* evaluated once; random1 and random2 are what Math.random() returns
StretchStep(random1, random2) ==
    /\ ~Idle
    /\ engine.run.iterations < MaxIterations
    /\ engine' = stretchStep(engine, markers, random1, random2)
    /\ op' = "process"
    /\ UNCHANGED <<launcherVars, markers, calc>>

\* The session of one track: every operation, launches on track 1 (track 2
\* is a track no clip was ever launched on).
Next ==
    \/ Advance
    \/ \E p \in StartPositions : Start(p)
    \/ Stop
    \/ \E q \in GlobalQuantizations : SetGlobalQuantization(q)
    \/ \E s \in Slots, q \in LaunchQuantizations : LaunchClip(1, s, q)
    \/ \E t \in Tracks, q \in LaunchQuantizations : StopClip(t, q)
    \/ \E q \in LaunchQuantizations : StopAll(q)
    \/ Tick

Spec == Init /\ [][Next]_vars

\* The session of two tracks: clips launched singly and by scenes.
NextScene ==
    \/ Advance
    \/ \E p \in StartPositions : Start(p)
    \/ \E t \in Tracks, s \in Slots : LaunchClip(t, s, "none")
    \/ \E scene \in [Tracks -> {0} \cup Slots], q \in LaunchQuantizations :
           LaunchScene(scene, q)
    \/ Tick

SpecScene == Init /\ [][NextScene]_vars

\* The session of one MIDI track with a MIDI output: MIDI clips launched
\* without quantization.
MidiSlots == {s \in Slots : SessionClips[s].type = "midi"}

NextMidi ==
    \/ Advance
    \/ \E p \in StartPositions : Start(p)
    \/ SetMIDIOutput
    \/ \E s \in MidiSlots : LaunchClip(1, s, "none")
    \/ \E q \in LaunchQuantizations : StopClip(1, q)
    \/ Tick

SpecMidi == Init /\ [][NextMidi]_vars

\* The session of one MIDI track with a MIDI output and looping clips, one of
\* them with a note that extends past the end of its loop.
SustainSlots ==
    {s \in DOMAIN SessionClips :
        /\ SessionClips[s].type = "midi"
        /\ SessionClips[s].loopEnabled}

NextNotes ==
    \/ Advance
    \/ \E p \in StartPositions : Start(p)
    \/ SetMIDIOutput
    \/ \E s \in SustainSlots : LaunchClip(1, s, "none")
    \/ \E q \in LaunchQuantizations : StopClip(1, q)
    \/ Tick

SpecNotes == Init /\ [][NextNotes]_vars

\* The session of one audio track: samples are loaded and audio clips
\* launched.
AudioSlots == {s \in Slots : SessionClips[s].type = "audio"}

NextAudio ==
    \/ Advance
    \/ \E p \in StartPositions : Start(p)
    \/ \E sampleId \in SampleIds : LoadSample(sampleId)
    \/ \E s \in AudioSlots, q \in LaunchQuantizations : LaunchClip(1, s, q)
    \/ \E q \in LaunchQuantizations : StopClip(1, q)
    \/ Tick

SpecAudio == Init /\ [][NextAudio]_vars

\* The warp markers of one clip are edited and positions are converted.
MarkerIds == 1..(MaxMarkers + 1)

NextWarp ==
    \/ \E sampleTime \in MarkerSampleTimes, beatTime \in MarkerBeatTimes :
           AddMarker(sampleTime, beatTime)
    \/ \E id \in MarkerIds : RemoveMarker(id)
    \/ ClearMarkers
    \/ \E sampleTime \in SamplePositions : SampleToBeat(sampleTime)
    \/ \E beatTime \in BeatPositions : BeatToSample(beatTime)
    \/ BeatToSampleBack

SpecWarp == Init /\ [][NextWarp]_vars

\* The helpers of the time base are called on non-negative beats and
\* seconds (whole ones, thirds and sixteenths), with every quantization and
\* with positive tempos.
AllQuantizations ==
    {"none", "1/32", "1/16", "1/8", "1/4", "1/2", "1-bar", "2-bars", "4-bars",
     "8-bars", "global"}

TimeInputs == {<<n, d>> : n \in 0..MaxNumerator, d \in {1, 3, 16}}

TempoInputs == {Rat(1), Rat(7), Rat(60), Rat(bpm), Rat(175), <<1285, 10>>}

\* the arguments of the calls: a beat or a number of seconds, a
\* quantization and a tempo
InitTimeBase ==
    /\ Constructed
    /\ \E x \in TimeInputs, quantization \in AllQuantizations,
          tempo \in TempoInputs :
           calc = [NoCalc EXCEPT !.arg = x, !.origin = x,
                                 !.unit = quantization, !.tempo = tempo]

NextTimeBase ==
    \/ GetNextQuantizedBeat
    \/ GetNextQuantizedBeatAgain
    \/ BeatsToSeconds
    \/ SecondsToBeats
    \/ SecondsToBeatsBack
    \/ BeatsToSecondsBack

SpecTimeBase == InitTimeBase /\ [][NextTimeBase]_vars

\* A warp engine is configured and process is called: with a grain size of
\* 0.1 ms (4 samples) next to the initial 50 ms, and buffers of a few
\* samples at 8 kHz.
StretchRate == 8000

Ones(n) == [k \in 1..n |-> Rat(1)]

Alternating(n) == [k \in 1..n |-> IF k % 2 = 1 THEN Rat(1) ELSE Rat(0 - 1)]

SourceBuffers ==
    { [sampleRate |-> StretchRate, channels |-> << Ones(4) >>],
      [sampleRate |-> StretchRate, channels |-> << Ones(12) >>],
      [sampleRate |-> StretchRate, channels |-> << Ones(6), Alternating(6) >>] }

WarpModes == {"beats", "tones", "texture", "complex", "repitch", "off"}

GrainSizes == {<<1, 10>>}

TargetDurations == {<<6, StretchRate>>, <<12, StretchRate>>}

\* (sampleTime, beatTime) of the markers added: 6 samples are 0.0015 beats
\* at originalBPM
StretchMarkers ==
    { <<Rat(0), Rat(0)>>, << <<6, StretchRate>>, <<3, 2000>> >>,
      << <<12, StretchRate>>, Rat(0)>> }

\* the values of the two Math.random() calls of one texture grain
RandomPairs == { <<Rat(0), Rat(0)>>, << <<3, 4>>, <<1, 2>> >> }

NextStretch ==
    \/ \E buffer \in SourceBuffers : SetSourceBuffer(buffer)
    \/ \E mode \in WarpModes : SetWarpMode(mode)
    \/ \E grainSize \in GrainSizes : SetGrainSize(grainSize)
    \/ \E enabled \in BOOLEAN : SetEnabled(enabled)
    \/ \E mk \in StretchMarkers : AddMarker(mk[1], mk[2])
    \/ ClearMarkers
    \/ Destroy
    \/ \E targetDuration \in TargetDurations : Process(targetDuration)
    \/ \E draw \in RandomPairs : StretchStep(draw[1], draw[2])

SpecStretch == Init /\ [][NextStretch]_vars

TypeOK ==
    /\ Len(clips) <= MaxLaunches
    /\ elapsed <= MaxElapsed
    /\ engine.run.iterations <= MaxIterations
    /\ \A id \in DOMAIN clips : \A k \in DOMAIN clips[id].midiEvents :
          /\ clips[id].midiEvents[k].ons <= SentCap
          /\ clips[id].midiEvents[k].offs <= SentCap

\* ------------------------------------------------------------ state query
\* The queries read the launcher S: Cur, the launcher as it is, or Nxt, the
\* launcher as a step leaves it.
Cur == [clips |-> clips, playing |-> playing, triggered |-> triggered,
        stopping |-> stopping, emitted |-> emitted]

Nxt == [clips |-> clips', playing |-> playing', triggered |-> triggered',
        stopping |-> stopping', emitted |-> emitted']

getClipState(S, trackId, slotIndex) ==
    IF S.playing[trackId] # NoClip
       /\ S.clips[S.playing[trackId]].slotIndex = slotIndex
    THEN S.clips[S.playing[trackId]].state
    ELSE IF S.triggered[trackId] # NoClip
            /\ S.clips[S.triggered[trackId]].slotIndex = slotIndex
    THEN "triggered"
    ELSE IF S.stopping[trackId] # NoClip
            /\ S.clips[S.stopping[trackId]].slotIndex = slotIndex
    THEN "stopping"
    ELSE "stopped"

isPlaying(S, trackId) == S.playing[trackId] # NoClip

\* the slot of the playing clip stands for the Clip object, 0 for null
getPlayingClip(S, trackId) ==
    IF S.playing[trackId] # NoClip
    THEN S.clips[S.playing[trackId]].slotIndex ELSE 0

\* ------------------------------------------------------- claim vocabulary
\* the effective quantization of a call
Effective(quantization) ==
    IF quantization = "global" THEN globalQuantization ELSE quantization

\* the ScheduledClips of a track whose state field is 'playing'
InStatePlaying(t) ==
    {id \in DOMAIN clips : clips[id].trackId = t /\ clips[id].state = "playing"}

\* the handler that produced S emitted an event of this type for clip id
Emits(S, type, id) ==
    \E i \in DOMAIN S.emitted : S.emitted[i].type = type /\ S.emitted[i].id = id

\* the length a clip plays before its first loop boundary or its end
FirstEnd(id) ==
    LET clip == SessionClips[clips[id].slotIndex]
    IN  IF clip.loopEnabled /\ clip.loopEnd # 0 THEN clip.loopEnd ELSE clip.duration

\* the tick at beat pos would end the clip by itself: a non-looping clip at
\* its end, or a looping clip with a follow action at a loop boundary
EndsItself(id, pos) ==
    LET clip == SessionClips[clips[id].slotIndex]
        clipPos == pos - clips[id].launchTime
    IN  IF clip.loopEnabled
        THEN clip.followAction.present
             /\ clipPos >= FirstEnd(id) * (clips[id].loopCount + 1)
        ELSE clipPos >= clip.duration

\* ------------------------------------------------------------------ claims
\* C1: after every scheduler tick, at most one ScheduledClip of a track is in
\* state 'playing'.
C1_PlayingExclusive ==
    \A t \in Tracks : op = "tick" => Cardinality(InStatePlaying(t)) <= 1

\* C2: when clip B was launched on a track while clip A was playing there, the
\* first tick whose beat has reached B's launchBeat stops A (clip-stopped for
\* A) and leaves B as the track's playing clip: isPlaying, getPlayingClip and
\* getClipState agree on B.
C2_ClipHandoff ==
    [][ \A t \in Tracks :
          LET A == stopping[t]
              B == triggered[t]
          IN  ( /\ op' = "tick"
                /\ A # NoClip /\ B # NoClip /\ A # B
                /\ clips[A].state = "playing"
                /\ playing[t] \in {A, B}
                /\ getPosition >= clips[B].launchTime
                /\ getPosition - clips[B].launchTime < FirstEnd(B) )
              => /\ Emits(Nxt, "clip-stopped", A)
                 /\ isPlaying(Nxt, t)
                 /\ playing'[t] = B
                 /\ getPlayingClip(Nxt, t) = clips[B].slotIndex
                 /\ getClipState(Nxt, t, clips[B].slotIndex) = "playing" ]_vars

\* C3: launching a clip whose legato mode is 'legato' while clip A is playing
\* on the track gives the new clip launchBeat = current beat and turns A to
\* 'stopping' with stopBeat = current beat.
C3_LegatoContinuity ==
    [][ \A t \in Tracks, s \in Slots, q \in LaunchQuantizations :
          LET A == playing[t]
              B == Len(clips) + 1
          IN  ( /\ op' = "launchClip"
                /\ A # NoClip
                /\ clips[A].state = "playing"
                /\ SessionClips[s].legato = "legato"
                /\ LaunchClip(t, s, q) )
              => /\ clips'[B].launchTime = getPosition
                 /\ clips'[A].state = "stopping"
                 /\ clips'[A].stopTime = getPosition ]_vars

\* C4: a launched clip is playing when launchClip returns, with clip-started
\* emitted in the call, exactly when its launchBeat is not after the current
\* beat (which covers quantization 'none'); a tick emits clip-started for a
\* pending clip exactly when the beat has reached its launchBeat.
C4_LaunchTiming ==
    [][ /\ \A t \in Tracks, s \in Slots, q \in LaunchQuantizations :
             LET B == Len(clips) + 1
             IN  (op' = "launchClip" /\ LaunchClip(t, s, q)) =>
                    IF clips'[B].launchTime <= getPosition
                    THEN clips'[B].state = "playing"
                         /\ Emits(Nxt, "clip-started", B)
                    ELSE clips'[B].state = "triggered"
                         /\ ~Emits(Nxt, "clip-started", B)
        /\ \A t \in Tracks :
             LET B == triggered[t]
             IN  (op' = "tick" /\ B # NoClip /\ clips[B].state = "triggered") =>
                    ( Emits(Nxt, "clip-started", B)
                      <=> getPosition >= clips[B].launchTime ) ]_vars

\* C5: stopClip on a track with a playing clip A stops A inside the call
\* (clip-stopped, A out of the playing and stopping sets) when the effective
\* quantization is 'none' or the stop boundary is not in the future; otherwise
\* A becomes 'stopping' with the boundary as stopBeat.  A tick before stopBeat
\* leaves a 'stopping' clip running (and in the playing set unless a launch
\* is pending on the track); the first tick at or after stopBeat stops it and
\* takes it out of the playing set.
C5_StopOperation ==
    [][ /\ \A t \in Tracks, q \in LaunchQuantizations :
             LET A == playing[t]
                 stopBeat == InBeatUnits(getNextQuantizedBeat(Beats(getPosition), Effective(q), Rat(bpm)))
             IN  (op' = "stopClip" /\ A # NoClip /\ StopClip(t, q)) =>
                    IF Effective(q) = "none" \/ stopBeat <= getPosition
                    THEN /\ Emits(Nxt, "clip-stopped", A)
                         /\ clips'[A].state = "stopped"
                         /\ playing'[t] = NoClip
                         /\ stopping'[t] = NoClip
                    ELSE /\ ~Emits(Nxt, "clip-stopped", A)
                         /\ clips'[A].state = "stopping"
                         /\ clips'[A].stopTime = stopBeat
                         /\ playing'[t] = A
                         /\ stopping'[t] = A
        /\ \A t \in Tracks :
             LET A == stopping[t]
             IN  (op' = "tick" /\ A # NoClip /\ clips[A].state = "stopping") =>
                    IF getPosition < clips[A].stopTime
                    THEN ~EndsItself(A, getPosition) =>
                            /\ ~Emits(Nxt, "clip-stopped", A)
                            /\ clips'[A].state = "stopping"
                            /\ stopping'[t] = A
                            /\ (playing[t] = A /\ triggered[t] = NoClip)
                                  => playing'[t] = A
                    ELSE /\ Emits(Nxt, "clip-stopped", A)
                         /\ clips'[A].state = "stopped"
                         /\ playing'[t] # A
                         /\ stopping'[t] # A ]_vars

\* a tick before its stopBeat has left a 'stopping' clip in the playing set
C5_Witness ==
    \E t \in Tracks :
        /\ op = "tick"
        /\ playing[t] # NoClip
        /\ stopping[t] = playing[t]
        /\ clips[playing[t]].state = "stopping"
        /\ getPosition < clips[playing[t]].stopTime

\* a ScheduledClip that never started and is no longer the pending clip of
\* its track
Cancelled(S, id) ==
    /\ S.clips[id].state = "triggered"
    /\ S.triggered[S.clips[id].trackId] # id

\* C6: stopClip, with any quantization, takes a still 'triggered' clip out of
\* the triggered set inside the call, and no later handler emits clip-started
\* for a clip cancelled this way.
C6_StopCancelsTrigger ==
    [][ /\ \A t \in Tracks, q \in LaunchQuantizations :
             LET B == triggered[t]
             IN  ( /\ op' = "stopClip"
                   /\ B # NoClip
                   /\ clips[B].state = "triggered"
                   /\ StopClip(t, q) ) =>
                    /\ triggered'[t] = NoClip
                    /\ Cancelled(Nxt, B)
                    /\ ~Emits(Nxt, "clip-started", B)
        /\ \A id \in DOMAIN clips :
             (Cancelled(Cur, id) /\ triggered[clips[id].trackId] = NoClip) =>
                /\ clips'[id].state = "triggered"
                /\ triggered'[clips[id].trackId] # id
                /\ ~Emits(Nxt, "clip-started", id) ]_vars

\* stopClip has just removed a pending clip
C6_Witness ==
    \E id \in DOMAIN clips :
        /\ op = "stopClip"
        /\ Cancelled(Cur, id)
        /\ triggered[clips[id].trackId] = NoClip
        /\ emitted = <<>>

\* C7: a launchClip on a track with a pending ('triggered') clip B replaces B:
\* the new clip is the only pending one, B is neither pending nor playing,
\* and no later handler emits clip-started for a clip superseded this way.
C7_RetriggerCancels ==
    [][ /\ \A t \in Tracks, s \in Slots, q \in LaunchQuantizations :
             LET B == triggered[t]
                 C == Len(clips) + 1
             IN  ( /\ op' = "launchClip"
                   /\ B # NoClip
                   /\ clips[B].state = "triggered"
                   /\ LaunchClip(t, s, q) ) =>
                    /\ triggered'[t] = C
                    /\ playing'[t] \in {playing[t], C}
                    /\ playing'[t] # B
                    /\ clips'[B].state = "triggered"
                    /\ ~Emits(Nxt, "clip-started", B)
        /\ \A id \in DOMAIN clips :
             Cancelled(Cur, id) =>
                /\ Cancelled(Nxt, id)
                /\ playing'[clips[id].trackId] # id
                /\ ~Emits(Nxt, "clip-started", id) ]_vars

\* launchClip has just superseded a pending clip
C7_Witness ==
    \E id \in DOMAIN clips :
        /\ op = "launchClip"
        /\ Cancelled(Cur, id)
        /\ triggered[clips[id].trackId] # NoClip
        /\ triggered[clips[id].trackId] > id

\* C8: a looping clip emits clip-looped only from a tick, at most once per
\* tick, the event carrying the clip's next loop count k and only when the
\* k-th loop boundary has been reached (beat - launchBeat >= k * loopEnd);
\* the loop count changes in no other way, and a tick that finds a clip that
\* remains playing past its next boundary emits the event.  A 4-beat looping
\* MIDI clip launched at beat 0 has looped at most twice up to beat 9.
C8_LoopBoundary ==
    /\ [][ \A id \in DOMAIN clips :
             LET k == clips[id].loopCount + 1
                 t == clips[id].trackId
                 clipPos == getPosition - clips[id].launchTime
                 looped == {i \in DOMAIN emitted' :
                               /\ emitted'[i].type = "clip-looped"
                               /\ emitted'[i].id = id}
             IN  /\ Cardinality(looped) <= 1
                 /\ \A i \in looped :
                       /\ op' = "tick"
                       /\ playing[t] = id \/ triggered[t] = id
                       /\ emitted'[i].loopCount = k
                       /\ clipPos >= k * FirstEnd(id)
                 /\ Reachable(Nxt, id) =>
                       clips'[id].loopCount =
                          IF looped # {} THEN k ELSE clips[id].loopCount
                 /\ ( /\ op' = "tick"
                      /\ playing[t] = id
                      /\ playing'[t] = id
                      /\ SessionClips[clips[id].slotIndex].loopEnabled
                      /\ clipPos >= k * FirstEnd(id) ) => looped # {} ]_vars
    /\ [](\A id \in DOMAIN clips :
             ( /\ Reachable(Cur, id)
               /\ clips[id].slotIndex = 1
               /\ clips[id].launchTime = 0
               /\ getPosition <= 9 * BeatUnit ) => clips[id].loopCount <= 2)

\* the 4-beat looping clip launched at beat 0 emits its second clip-looped at
\* beat 8
C8_Witness ==
    \E id \in DOMAIN clips :
        /\ op = "tick"
        /\ playing[clips[id].trackId] = id
        /\ clips[id].slotIndex = 1
        /\ clips[id].launchTime = 0
        /\ clips[id].loopCount = 2
        /\ getPosition = 8 * BeatUnit
        /\ \E i \in DOMAIN emitted : /\ emitted[i].type = "clip-looped"
                                     /\ emitted[i].id = id
                                     /\ emitted[i].loopCount = 2

\* the tracks a scene launches a clip on
SceneTracks(scene) == {t \in Tracks : scene[t] # 0}

StateEdges ==
    { <<"stopped", "triggered">>, <<"triggered", "playing">>,
      <<"stopped", "playing">>, <<"playing", "playing">>,
      <<"playing", "stopping">>, <<"stopping", "stopped">>,
      <<"triggered", "stopped">> }

\* C10: the state of a ScheduledClip changes only along the edges of the
\* state machine.  A handler that takes a playing clip through 'stopping' to
\* 'stopped' in one call (stopClip without delay, a follow action 'stop'),
\* the end of a non-looping clip and the transport stop are taken as allowed;
\* a playing clip superseded by a launch must be seen 'stopping' before it is
\* 'stopped'.
C10_StateMachine ==
    [][ \A id \in DOMAIN clips :
          LET from == clips[id].state
              to == clips'[id].state
          IN  \/ from = to
              \/ <<from, to>> \in StateEdges
              \/ /\ from = "playing"
                 /\ to = "stopped"
                 /\ \/ op' \in {"stopClip", "stopAll", "stop"}
                    \/ Emits(Nxt, "follow-action", id)
                    \/ /\ op' = "tick"
                       /\ playing[clips[id].trackId] = id
                       /\ ~SessionClips[clips[id].slotIndex].loopEnabled
                       /\ EndsItself(id, getPosition) ]_vars

\* C11: for a playing MIDI clip, over any number of ticks, every
\* ScheduledMIDIEvent has caused at most one note-on and at most one note-off
\* call of the MIDI output; a note-on is sent only when the clock has reached
\* the event's start time and a note-off only when it has reached its end
\* time.
C11_MidiDispatchOnce ==
    /\ [](\A id \in DOMAIN clips : \A k \in DOMAIN clips[id].midiEvents :
             /\ clips[id].midiEvents[k].ons <= 1
             /\ clips[id].midiEvents[k].offs <= 1)
    /\ [][ \A id \in DOMAIN clips : \A k \in DOMAIN clips[id].midiEvents :
             LET e == clips[id].midiEvents[k]
             IN  ( /\ k \in DOMAIN clips'[id].midiEvents
                   /\ clips'[id].midiEvents[k].startTime = e.startTime ) =>
                    /\ clips'[id].midiEvents[k].ons > e.ons => now >= e.startTime
                    /\ clips'[id].midiEvents[k].offs > e.offs => now >= e.endTime
          ]_vars

\* C12: a clip of the playing set whose looping is disabled is finalized by
\* the first tick at which current beat - launchBeat >= clip duration:
\* clip-stopped is emitted for it, it is 'stopped' and out of the playing
\* set; and no handler emits clip-looped for such a clip.
C12_NonLoopingEnd ==
    [][ \A id \in DOMAIN clips :
          LET t == clips[id].trackId
              clip == SessionClips[clips[id].slotIndex]
          IN  (Reachable(Cur, id) /\ ~clip.loopEnabled) =>
                 /\ ~Emits(Nxt, "clip-looped", id)
                 /\ ( /\ op' = "tick"
                      /\ playing[t] = id
                      /\ clips[id].state = "playing"
                      /\ getPosition - clips[id].launchTime >= clip.duration ) =>
                        /\ Emits(Nxt, "clip-stopped", id)
                        /\ clips'[id].state = "stopped"
                        /\ playing'[t] # id ]_vars

\* the step is the tick in which Math.random() returns random[t] for the clip
\* of track t
TickDrew(random) == Commit(tick(Launcher, getPosition, random))

\* the follow-action events the handler that produced S emitted for clip id
FollowActionsOf(S, id) ==
    {i \in DOMAIN S.emitted :
        S.emitted[i].type = "follow-action" /\ S.emitted[i].id = id}

\* C13: a tick evaluates the follow action pair of a clip once, when the clip
\* crosses a loop boundary (clip-looped): action A if the draw r <= chance of
\* A, else action B.  A chosen 'stop' stops the clip in that tick whatever
\* the quantization: follow-action and clip-stopped are emitted, the clip is
\* 'stopped' and the track has no playing clip; a stopped clip emits no
\* clip-looped any more.  A chosen 'none' emits no follow-action event and
\* leaves the clip playing.
C13_FollowActionStop ==
    [][ /\ \A id \in DOMAIN clips :
             clips[id].state = "stopped" => ~Emits(Nxt, "clip-looped", id)
        /\ \A random \in [Tracks -> RandomDraws] :
             (op' = "tick" /\ TickDrew(random)) =>
                \A id \in DOMAIN clips :
                   LET t == clips[id].trackId
                       pair == SessionClips[clips[id].slotIndex].followAction
                       chosen == IF random[t] <= pair.chanceA
                                 THEN pair.actionA ELSE pair.actionB
                       fired == FollowActionsOf(Nxt, id)
                   IN  Reachable(Cur, id) =>
                          /\ Cardinality(fired) <= 1
                          /\ fired # {} => Emits(Nxt, "clip-looped", id)
                          /\ (Emits(Nxt, "clip-looped", id) /\ pair.present) =>
                                IF chosen = "stop"
                                THEN /\ fired # {}
                                     /\ \A i \in fired : emitted'[i].action = "stop"
                                     /\ Emits(Nxt, "clip-stopped", id)
                                     /\ clips'[id].state = "stopped"
                                     /\ ~isPlaying(Nxt, t)
                                ELSE /\ fired = {}
                                     /\ ~Emits(Nxt, "clip-stopped", id)
                                     /\ clips'[id].state = clips[id].state
                                           \/ clips[id].state = "triggered"
                                     /\ clips'[id].state # "stopped"
                                     /\ playing'[t] = id ]_vars

\* a tick has stopped a clip by its follow action
C13_Witness ==
    \E id \in DOMAIN clips :
        /\ op = "tick"
        /\ FollowActionsOf(Cur, id) # {}
        /\ Emits(Cur, "clip-looped", id)
        /\ Emits(Cur, "clip-stopped", id)
        /\ clips[id].state = "stopped"
        /\ ~isPlaying(Cur, clips[id].trackId)

\* no clip of the track is playing, triggered or stopping
Untracked(S, t) ==
    S.playing[t] = NoClip /\ S.triggered[t] = NoClip /\ S.stopping[t] = NoClip

\* C14: stopClip for a track on which no clip is playing, triggered or
\* stopping changes nothing in the launcher and emits no event; for such a
\* track getClipState is 'stopped' for every slot, isPlaying is false and
\* getPlayingClip is null.
C14_UnknownTrack ==
    /\ [][ \A t \in Tracks, q \in LaunchQuantizations :
             (op' = "stopClip" /\ Untracked(Cur, t) /\ StopClip(t, q)) =>
                /\ emitted' = << >>
                /\ clips' = clips
                /\ playing' = playing
                /\ triggered' = triggered
                /\ stopping' = stopping
                /\ UNCHANGED <<transportState, position, elapsed, tickerId,
                               globalQuantization>> ]_vars
    /\ [](\A t \in Tracks :
             Untracked(Cur, t) =>
                /\ \A s \in Slots : getClipState(Cur, t, s) = "stopped"
                /\ ~isPlaying(Cur, t)
                /\ getPlayingClip(Cur, t) = 0)

\* stopClip was called for a track without clips while a clip was playing on
\* another track
C14_Witness ==
    \E t, u \in Tracks :
        /\ op = "stopClip"
        /\ Untracked(Cur, t)
        /\ emitted = << >>
        /\ playing[u] # NoClip
        /\ clips[playing[u]].state = "playing"
        /\ stopping[u] = NoClip

\* the regions of a clip that have a source in the list
Scheduled(sources) == {sources[i].region : i \in DOMAIN sources}

\* C15: when an audio clip starts (clip-started), every region of it whose
\* sample is loaded has a source scheduled and every region whose sample is
\* not loaded has none; whichever regions are missing, the clip is 'playing'
\* and clip-started was emitted.
C15_MissingSample ==
    [][ \A id \in DOMAIN clips' :
          LET clip == SessionClips[clips'[id].slotIndex]
          IN  ( /\ Emits(Nxt, "clip-started", id)
                /\ Reachable(Nxt, id)
                /\ clip.type = "audio" ) =>
                 /\ clips'[id].state = "playing"
                 /\ Scheduled(clips'[id].sources) =
                       {r \in DOMAIN clip.regions :
                           clip.regions[r].sampleId \in sampleCache} ]_vars

\* an audio clip has started with its first region skipped and its second
\* region scheduled
C15_Witness ==
    \E id \in DOMAIN clips :
        /\ Emits(Cur, "clip-started", id)
        /\ clips[id].state = "playing"
        /\ SessionClips[clips[id].slotIndex].type = "audio"
        /\ sampleCache = {2}
        /\ Scheduled(clips[id].sources) = {2}

\* the markers are strictly increasing in sampleTime and in beatTime
StrictlyIncreasing(m) ==
    \A i \in 1..(Len(m) - 1) : /\ RLt(m[i].sampleTime, m[i + 1].sampleTime)
                                /\ RLt(m[i].beatTime, m[i + 1].beatTime)

\* C16: with at least 2 markers, strictly increasing in both fields, two
\* calls of sampleToBeat (of beatToSample) on the same markers with
\* arguments x < y return f(x) < f(y), wherever x and y lie.
C16_WarpMonotonic ==
    [][ ( /\ calc.fn \in {"sampleToBeat", "beatToSample"}
          /\ calc'.fn = calc.fn
          /\ calc.via = "" /\ calc'.via = ""
          /\ markers' = markers
          /\ Len(markers) >= 2
          /\ StrictlyIncreasing(markers)
          /\ RLt(calc.arg, calc'.arg) ) =>
           RLt(calc.result, calc'.result) ]_vars

\* C17: with markers strictly increasing in both fields, beatToSample of
\* sampleToBeat(x) is x for every x from the first marker's sampleTime to the
\* last marker's, a marker shared by two segments included.
C17_WarpInverse ==
    ( /\ calc.fn = "beatToSample"
      /\ calc.via = "sampleToBeat"
      /\ Len(markers) >= 2
      /\ StrictlyIncreasing(markers)
      /\ RLe(markers[1].sampleTime, calc.origin)
      /\ RLe(calc.origin, markers[Len(markers)].sampleTime) ) =>
       REq(calc.result, calc.origin)

\* the round trip of x = 1.0, the marker shared by the two segments of
\* [(0, 0), (1.0, 2.0), (2.0, 4.5)]
C17_Witness ==
    /\ calc.fn = "beatToSample"
    /\ calc.via = "sampleToBeat"
    /\ Len(markers) = 3
    /\ StrictlyIncreasing(markers)
    /\ REq(markers[2].sampleTime, calc.origin)
    /\ REq(calc.arg, markers[2].beatTime)
    /\ REq(calc.result, calc.origin)

\* C18: whatever addMarker, removeMarker and clearMarkers calls were made, no
\* two markers have the same sampleTime.
C18_MarkerUniqueness ==
    \A i, j \in DOMAIN markers :
        i # j => ~REq(markers[i].sampleTime, markers[j].sampleTime)

\* r is a whole multiple of q (q > 0)
IsMultipleOf(r, q) == LET k == RDiv(r, q) IN k[2] # 0 /\ k[1] % k[2] = 0

\* C19: getNextQuantizedBeat(b, q, bpm) is b for a unit of 0 beats ('none');
\* otherwise it is the least multiple of the unit's beats that is >= b, so a
\* b on a boundary is returned unchanged; and getNextQuantizedBeat of the
\* result is the result again.
C19_QuantizedBoundary ==
    calc.fn = "getNextQuantizedBeat" =>
        LET q == launchQuantizationToBeats(calc.unit, calc.tempo)
        IN  /\ IF REq(q, Rat(0)) THEN REq(calc.result, calc.arg)
               ELSE /\ IsMultipleOf(calc.result, q)
                    /\ RLe(calc.arg, calc.result)
                    /\ RLt(RSub(calc.result, q), calc.arg)
                    /\ IsMultipleOf(calc.arg, q) => REq(calc.result, calc.arg)
            /\ calc.via = "getNextQuantizedBeat" =>
                   REq(calc.result, calc.arg)

\* a beat off the boundaries was moved up to the next 2-bar boundary, and
\* the second call returned that boundary
C19_Witness ==
    /\ calc.fn = "getNextQuantizedBeat"
    /\ calc.via = "getNextQuantizedBeat"
    /\ calc.unit = "2-bars"
    /\ RLt(calc.origin, calc.arg)
    /\ REq(calc.arg, Rat(16))
    /\ REq(calc.result, calc.arg)

\* C20: for bpm > 0, secondsToBeats of beatsToSeconds(beats, bpm) is beats and
\* beatsToSeconds of secondsToBeats(s, bpm) is s.
C20_RoundTrip ==
    /\ (calc.fn = "secondsToBeats" /\ calc.via = "beatsToSeconds") =>
           REq(calc.result, calc.origin)
    /\ (calc.fn = "beatsToSeconds" /\ calc.via = "secondsToBeats") =>
           REq(calc.result, calc.origin)

\* 10/3 beats at 128.5 bpm were converted to seconds and back
C20_Witness ==
    /\ calc.fn = "secondsToBeats"
    /\ calc.via = "beatsToSeconds"
    /\ calc.origin = <<10, 3>>
    /\ calc.tempo = <<1285, 10>>
    /\ ~REq(calc.arg, calc.origin)
    /\ REq(calc.result, calc.origin)

\* C21: whatever the input length, the output length, the grain size and the
\* stretch ratio > 0 are, the stretch loops terminate: every iteration of a
\* loop moves the position its while condition tests (outputPos) forward, or,
\* in the two routines that also leave the loop at the end of the input, the
\* input position.
C21_StretchTerminates ==
    [][ ( /\ op' = "process"
          /\ ~Idle
          /\ engine'.run.iterations = engine.run.iterations + 1 ) =>
           \/ RLt(engine.run.outputPos, engine'.run.outputPos)
           \/ /\ engine.run.pc \in {"granular", "overlapAdd"}
              /\ RLt(engine.run.inputPos, engine'.run.inputPos) ]_vars

\* the modes that stretch the source to the target duration
StretchingModes == {"beats", "tones", "texture", "complex"}

\* process has just returned or thrown: a source is loaded, warping is
\* enabled and the mode is one of the stretching modes
ProcessEnded ==
    /\ op = "process"
    /\ Idle
    /\ engine.sourceBuffer # NoBuffer
    /\ engine.enabled
    /\ engine.mode \in StretchingModes

\* C22: with a source loaded and warping enabled, process(targetDuration) in
\* the modes beats, tones, texture and complex returns a buffer of exactly
\* floor(targetDuration * sampleRate) samples with the sample rate and the
\* number of channels of the source, whatever the markers are.
C22_StretchDuration ==
    ProcessEnded =>
        /\ engine.result.kind = "buffer"
        /\ engine.result.buffer.sampleRate = engine.sourceBuffer.sampleRate
        /\ Len(engine.result.buffer.channels) =
               Len(engine.sourceBuffer.channels)
        /\ \A ch \in DOMAIN engine.result.buffer.channels :
               Rat(Len(engine.result.buffer.channels[ch])) =
                   Floor(RMul(engine.result.targetDuration,
                              Rat(engine.sourceBuffer.sampleRate)))

\* C23: after a granular ('beats') or texture stretch every sample of the
\* returned buffer is a number (neither NaN nor infinite) of magnitude at
\* most 1.0, whatever the input, its length and the ratio are.
C23_NoClip ==
    ( /\ ProcessEnded
      /\ engine.mode \in {"beats", "texture"}
      /\ engine.result.kind = "buffer" ) =>
        \A ch \in DOMAIN engine.result.buffer.channels :
            \A k \in DOMAIN engine.result.buffer.channels[ch] :
                /\ engine.result.buffer.channels[ch][k][2] # 0
                /\ RLe(RAbs(engine.result.buffer.channels[ch][k]), Rat(1))

\* C24: with no source buffer loaded (before the first setSourceBuffer or
\* after destroy) process returns null at once, in every warp mode and for
\* every target duration, whether warping is enabled or not; it throws
\* nothing and leaves the settings and the markers as they were.
C24_NoSourceBuffer ==
    [][ ( /\ op' = "process"
          /\ Idle
          /\ engine.sourceBuffer = NoBuffer ) =>
           /\ engine'.result.kind = "null"
           /\ engine'.run = NoRun
           /\ engine'.sourceBuffer = NoBuffer
           /\ engine'.enabled = engine.enabled
           /\ engine'.mode = engine.mode
           /\ engine'.grainSize = engine.grainSize
           /\ markers' = markers ]_vars

\* process has returned null in texture mode with warping disabled, two
\* markers set and the source dropped by destroy
C24_Witness ==
    /\ op = "process"
    /\ engine.sourceBuffer = NoBuffer
    /\ engine.result.kind = "null"
    /\ engine.mode = "texture"
    /\ ~engine.enabled
    /\ Len(markers) = 2

\* the number of events of a type the handler that produced S emitted for
\* clip id
EmittedFor(S, type, id) ==
    Cardinality({i \in DOMAIN S.emitted :
                    S.emitted[i].type = type /\ S.emitted[i].id = id})

\* C25: every launch leads to at most one clip-started event and one start
\* of the dispatch of its clip: a handler starts a ScheduledClip at most
\* once, and only one that has not been started before (its state is still
\* 'triggered', or the handler is the launchClip that creates it); a clip
\* started inside launchClip is not started again by the next tick.
C25_OneStartPerLaunch ==
    [][ \A id \in DOMAIN clips' :
          /\ EmittedFor(Nxt, "clip-started", id) <= 1
          /\ Emits(Nxt, "clip-started", id) =>
                 \/ id \notin DOMAIN clips
                 \/ clips[id].state = "triggered" ]_vars

\* a ScheduledClip that was started and has not been stopped (its state is
\* 'playing' or 'stopping') and is neither in the playing set nor in the
\* stopping set of its track: no tick can reach it to stop it
Orphaned(S, id) ==
    /\ S.clips[id].state \in {"playing", "stopping"}
    /\ S.playing[S.clips[id].trackId] # id
    /\ S.stopping[S.clips[id].trackId] # id

\* C26: no clip is orphaned by a launch or a tick: a started clip that a
\* launch on its track supersedes stays in the stopping set until a tick
\* stops it at its stop beat, however many launches there are between two
\* ticks, and a tick leaves every started clip it does not stop in the
\* playing or the stopping set.
C26_NoOrphanedClips ==
    [][ op' \in {"launchClip", "tick"} =>
           \A id \in DOMAIN clips' :
               Orphaned(Nxt, id) => id \in DOMAIN clips /\ Orphaned(Cur, id)
      ]_vars

\* C27: a handler emits clip-stopped for a ScheduledClip at most once, and
\* only for a clip that was started and has not been stopped before (one
\* that ended by itself while a quantized stop was pending is not stopped
\* again at the stop beat); and a tick that stops a clip at its stop beat
\* does not take another clip of the track, which goes on playing, out of
\* the playing set.
C27_OneStopPerStart ==
    [][ \A id \in DOMAIN clips' :
          /\ EmittedFor(Nxt, "clip-stopped", id) <= 1
          /\ Emits(Nxt, "clip-stopped", id) =>
                 /\ id \in DOMAIN clips
                 /\ \/ clips[id].state \in {"playing", "stopping"}
                    \/ /\ clips[id].state = "triggered"
                       /\ Emits(Nxt, "clip-started", id)
          /\ ( /\ op' = "tick"
               /\ \E other \in DOMAIN clips' :
                      /\ other # id
                      /\ clips'[other].trackId = clips'[id].trackId
                      /\ Emits(Nxt, "clip-stopped", other)
               /\ clips'[id].state = "playing"
               /\ \/ id \in DOMAIN clips /\ playing[clips[id].trackId] = id
                  \/ Emits(Nxt, "clip-started", id) ) =>
                 playing'[clips'[id].trackId] = id ]_vars

\* C28: no note is left sounding: a ScheduledMIDIEvent whose note-on was
\* sent is discarded from its clip (on the stop of the clip, or by
\* rescheduleMIDI at a loop boundary) only when its note-off has been sent:
\* before the step, by the dispatch of the step (the clock has reached the
\* end time of the event), or by the stop of the clip in the step.
C28_NoStuckNotes ==
    [][ \A id \in DOMAIN clips : \A k \in DOMAIN clips[id].midiEvents :
          LET e == clips[id].midiEvents[k]
              kept == /\ k \in DOMAIN clips'[id].midiEvents
                      /\ clips'[id].midiEvents[k].startTime = e.startTime
          IN  ( /\ e.ons > 0
                /\ ~kept
                /\ Reachable(Nxt, id) ) =>
                 \/ e.offs > 0
                 \/ now >= e.endTime
                 \/ Emits(Nxt, "clip-stopped", id) ]_vars

\* C29: stop() finalizes everything: after it the playing, the triggered and
\* the stopping set are empty, every clip of these sets that was started and
\* not yet stopped, one that is only in the stopping set included, is
\* 'stopped' and clip-stopped was emitted for it, and the ticker is
\* cancelled with the transport 'stopped', so that no tick processes clips
\* until start() is called.
C29_TransportStop ==
    [][ op' = "stop" =>
          /\ \A t \in Tracks : /\ playing'[t] = NoClip
                               /\ triggered'[t] = NoClip
                               /\ stopping'[t] = NoClip
          /\ \A id \in DOMAIN clips :
                ( /\ clips[id].state \in {"playing", "stopping"}
                  /\ Reachable(Cur, id) ) =>
                   /\ clips'[id].state = "stopped"
                   /\ Emits(Nxt, "clip-stopped", id)
          /\ transportState' = "stopped"
          /\ ~tickerId' ]_vars

\* C30: after every sequence of addMarker, removeMarker and clearMarkers the
\* markers are sorted by sampleTime (non-decreasing) and have distinct ids;
\* removeMarker(id) removes the marker with that id and no other, keeps the
\* order of the others, and changes nothing when no marker has the id.
C30_MarkerOrder ==
    /\ [](/\ \A i \in 1..(Len(markers) - 1) :
                RLe(markers[i].sampleTime, markers[i + 1].sampleTime)
          /\ \A i, j \in DOMAIN markers :
                markers[i].id = markers[j].id => i = j)
    /\ [][ op' = "removeMarker" =>
             LET id == calc'.arg[1]
                 keep == {i \in DOMAIN markers : markers[i].id # id}
             IN  /\ Len(markers') = Cardinality(keep)
                 /\ Cardinality(keep) >= Len(markers) - 1
                 /\ \A i \in keep :
                       markers'[Cardinality({j \in keep : j <= i})] = markers[i]
                 /\ keep = DOMAIN markers => markers' = markers ]_vars

\* removeMarker(2) has left the markers 3 and 1, in this order, of which
\* marker 3, the later one added, is at the earlier sampleTime
C30_Witness ==
    /\ op = "removeMarker"
    /\ calc.arg = Rat(2)
    /\ Len(markers) = 2
    /\ markers[1].id = 3
    /\ markers[2].id = 1
    /\ RLt(markers[1].sampleTime, markers[2].sampleTime)

====
